---- MODULE Spec2Model ----
(***************************************************************************)
(* Model of the NongPlatoo.Ai chat backend: the response cache and the     *)
(* duplicate-request map of TravelChatbot.get_response, the fallback chain *)
(* of the response composer, the timeout-wrapped calls, the chatbot        *)
(* singletons, the hybrid place search, the keyword and proximity          *)
(* searches, intent and category detection, result trimming, location      *)
(* extraction and the retrieval steps of one request.                      *)
(***************************************************************************)
EXTENDS Integers, Sequences, FiniteSets, TLC

VARIABLES
    now,                 \* time.time(), in whole seconds
    RESPONSE_CACHE,      \* chat.py _RESPONSE_CACHE: key -> payload
    RESPONSE_CACHE_TIME, \* chat.py _RESPONSE_CACHE_TIME: key -> timestamp
    recent_requests,     \* TravelChatbot._recent_requests: user_id -> entry
    gpt_service,         \* TravelChatbot.gpt_service: "none" | "no_client" | "ready"
    lastCall,            \* the latest request and what it returned
    \* a timeout-wrapped call
    site,                \* which call: "db_probe" | "maps_search" | "chat_call"
    caller,              \* where the calling thread stands
    worker,              \* the submitted task: "none" | "running" | "done"
    waited,              \* seconds the caller has spent in future.result
    timed_out,           \* future.result raised TimeoutError
    outcome,             \* what the caller goes on with
    \* the chatbot singletons
    CHATBOT,             \* chat.py _CHATBOT: 0 (None) or an instance
    CHATBOT_INSTANCE,    \* app.py _CHATBOT_INSTANCE: 0 (None) or an instance
    constructed,         \* how many times TravelChatbot() has run
    thread_pc,           \* thread -> its position in the entry point
    thread_entry,        \* thread -> the entry point it is in
    thread_bot,          \* thread -> the instance it last used, 0 for none
    \* the hybrid place search
    places_table,        \* place id -> [keyword_hit, distance]
    query_limit,         \* the limit argument
    keyword_weight,      \* the keyword_weight argument, in percent
    search_env,          \* "ok" | "no_vector" | "db_down"
    hybrid_phase,        \* "input" | "done"
    semantic_results,    \* what search_places_semantic returned
    keyword_results,     \* what search_places returned
    hybrid_results,      \* what search_places_hybrid returned
    \* one call of a search or query-analysis function
    fn_input,            \* the function called and its arguments
    fn_output,           \* [status |-> "pending"], or what the call gave
    \* retrieval inside one get_response request
    request_pc,          \* where get_response stands
    request,             \* the user message: query, blank, local
    analysis_task,       \* _interpret_query_keywords: "none" | "running" | "done"
    matcher_task,        \* _matcher_analysis: "none" | "running" | "done"
    matcher_signals,     \* what _matcher_analysis returned
    location_ref,        \* what _extract_location_reference returned
    coords,              \* what _resolve_location_coordinates returned
    resolution,          \* the sources the latest resolution consulted, in order
    location_aware_results, \* what search_places_near_location returned
    matched_data,        \* the retrieval result
    result_type,         \* query_type: "specific" | "suggestions"
    includes_local_term, \* the query is locally relevant
    searches,            \* the search functions called in this request
    location_cache,      \* names with a LocationCache row
    geocoded,            \* names the external geocoder has resolved
    geocoder_calls,      \* calls of the external geocoder so far
    \* the scope check of one get_response request
    scope_pc,            \* where get_response stands
    scope_query,         \* user_message
    scope_analysis,      \* what _interpret_query_keywords returned
    scope_is_local,      \* matcher_signals["is_local"]
    llm_calls,           \* the model calls made for this request, in order
    scope_payload,       \* what get_response returned
    \* the voice activity detector
    silence_frames,      \* VoiceActivityDetector.silence_frames
    speech_frames,       \* VoiceActivityDetector.speech_frames
    is_speaking,         \* VoiceActivityDetector.is_speaking
    silence_threshold,   \* silence_threshold_seconds of the calls, in tenths of a second
    vad_call,            \* the latest detect_speech_end call and what it returned
    silent_run,          \* silent chunks fed since the last speech chunk
    spoken,              \* a speech chunk was fed since the start or the last reported end
    \* the conversation memory
    conversations,       \* ConversationMemory._conversations: user -> messages, last_activity
    memory_time,         \* time.time() as the memory sees it
    memory_call,         \* the latest call on the memory and what it returned
    added,               \* user -> the messages added to the live conversation, in order
    adds,                \* add_message calls so far
    \* the visit counter
    visit_file,          \* Data/visit_counts.json: missing, or total and pages
    visit_lock,          \* visit_counter._lock: the thread that holds it, 0 for none
    visitor_pc,          \* thread -> its position in increment_visit or get_counts
    visitor_path,        \* thread -> the normalized path of its increment_visit call
    visitor_counts,      \* thread -> the counts it read from the file
    completed,           \* the normalized paths of the completed increment_visit calls
    \* the requests of POST /api/messages/stream
    ACTIVE_REQUESTS,     \* app.py _ACTIVE_REQUESTS: request_id -> time of registration
    stream_time,         \* time.time() as the endpoint sees it
    stream_pc,           \* thread -> its position in post_message_stream
    stream_request,      \* thread -> request_id, user_id and text of its request
    stream_reply,        \* thread -> the status code of its latest response, 0 for none
    \* the query-result cache of _match_travel_data
    QUERY_RESULT_CACHE,  \* chat.py _QUERY_RESULT_CACHE: key -> the stored result list
    QUERY_RESULT_CACHE_TIME,\* chat.py _QUERY_RESULT_CACHE_TIME: key -> time of the write
    cache_clock,         \* time.time() as _match_travel_data sees it
    original_results,    \* key -> the list the search gave when the key was written
    match_call           \* the latest _match_travel_data call and what it returned

chatVars == <<now, RESPONSE_CACHE, RESPONSE_CACHE_TIME, recent_requests,
              gpt_service, lastCall>>

timeoutVars == <<site, caller, worker, waited, timed_out, outcome>>

singletonVars == <<CHATBOT, CHATBOT_INSTANCE, constructed, thread_pc,
                   thread_entry, thread_bot>>

hybridVars == <<places_table, query_limit, keyword_weight, search_env,
                hybrid_phase, semantic_results, keyword_results,
                hybrid_results>>

functionVars == <<fn_input, fn_output>>

requestVars == <<request_pc, request, analysis_task, matcher_task,
                 matcher_signals, location_ref, coords, resolution,
                 location_aware_results, matched_data, result_type,
                 includes_local_term, searches, location_cache, geocoded,
                 geocoder_calls>>

scopeVars == <<scope_pc, scope_query, scope_analysis, scope_is_local,
               llm_calls, scope_payload>>

vadVars == <<silence_frames, speech_frames, is_speaking, silence_threshold,
             vad_call, silent_run, spoken>>

memoryVars == <<conversations, memory_time, memory_call, added, adds>>

visitVars == <<visit_file, visit_lock, visitor_pc, visitor_path,
               visitor_counts, completed>>

streamVars == <<ACTIVE_REQUESTS, stream_time, stream_pc, stream_request,
                stream_reply>>

qcacheVars == <<QUERY_RESULT_CACHE, QUERY_RESULT_CACHE_TIME, cache_clock,
                original_results, match_call>>

baseVars == <<chatVars, timeoutVars, singletonVars, hybridVars, functionVars,
              requestVars>>

serviceVars == <<scopeVars, vadVars, memoryVars, visitVars, streamVars,
                qcacheVars>>

vars == <<baseVars, serviceVars>>

(***************************************************************************)
(* Program constants (backend/constants.py).                               *)
(***************************************************************************)
RESPONSE_CACHE_TTL_SECONDS == 60
DUPLICATE_WINDOW_SECONDS == 15

\* Outcomes of the model call: chat.completions.create returns or raises.
ApiOutcomes == {"ok", "raises"}

(***************************************************************************)
(* text_utils.normalize_whitespace, str.strip, str.lower                   *)
(***************************************************************************)
IsSpace(c) == c = " "

UpperCase == <<"A", "B", "C", "D", "E", "F", "G", "H", "I", "J", "K", "L", "M",
               "N", "O", "P", "Q", "R", "S", "T", "U", "V", "W", "X", "Y", "Z">>

LowerCase == <<"a", "b", "c", "d", "e", "f", "g", "h", "i", "j", "k", "l", "m",
               "n", "o", "p", "q", "r", "s", "t", "u", "v", "w", "x", "y", "z">>

LowerChar(c) ==
    IF \E i \in DOMAIN UpperCase : UpperCase[i] = c
    THEN LowerCase[CHOOSE i \in DOMAIN UpperCase : UpperCase[i] = c]
    ELSE c

lower(s) == [i \in 1..Len(s) |-> LowerChar(s[i])]

RECURSIVE lstrip(_)
lstrip(s) ==
    IF s = <<>> THEN <<>>
    ELSE IF IsSpace(Head(s)) THEN lstrip(Tail(s)) ELSE s

RECURSIVE rstrip(_)
rstrip(s) ==
    IF s = <<>> THEN <<>>
    ELSE IF IsSpace(s[Len(s)]) THEN rstrip(SubSeq(s, 1, Len(s) - 1)) ELSE s

strip(s) == rstrip(lstrip(s))

\* re.sub(r"\s+", " ", t): every run of whitespace becomes one space.
RECURSIVE CollapseSpaces(_)
CollapseSpaces(s) ==
    IF s = <<>> THEN <<>>
    ELSE IF IsSpace(Head(s))
         THEN <<" ">> \o CollapseSpaces(lstrip(s))
         ELSE <<Head(s)>> \o CollapseSpaces(Tail(s))

normalize_whitespace(text) ==
    IF text = <<>> THEN <<>> ELSE CollapseSpaces(strip(text))

normalized_query_key(text) == lower(normalize_whitespace(text))

\* needle in haystack, for non-empty needles
Contains(haystack, needle) ==
    \E i \in 1..(Len(haystack) - Len(needle) + 1) :
        SubSeq(haystack, i, i + Len(needle) - 1) = needle

\* detect_language: "th" when a Thai character is present; the empty text
\* gets DEFAULT_LANGUAGE.  No query of the model has a Thai character.
detect_language(text) == IF text = <<>> THEN "th" ELSE "en"

\* greetings_th + greetings_en of get_response; the Thai words cannot occur
\* in a query over the model's alphabet.
GreetingWords ==
    { <<"h","e","l","l","o">>, <<"h","i">>, <<"h","e","y">>,
      <<"g","r","e","e","t","i","n","g","s">> }

IsGreeting(user_message) ==
    /\ strip(user_message) # <<>>
    /\ \E w \in GreetingWords : Contains(lower(strip(user_message)), w)

(***************************************************************************)
(* Payload dictionaries                                                    *)
(***************************************************************************)
Dget(d, k, default) == IF k \in DOMAIN d THEN d[k] ELSE default

Dset(d, k, v) == [x \in (DOMAIN d) \cup {k} |-> IF x = k THEN v ELSE d[x]]

Payload(response, structured, language, source, intent) ==
    [response |-> response, structured_data |-> structured,
     language |-> language, source |-> source, intent |-> intent]

\* f"{source}_cached"
CachedSuffix(source) == source \o "_cached"


\* A piece of reply text: which template or generator produced it, and the
\* records it was built from.
Text(kind, places, specific) ==
    [kind |-> kind, places |-> places, specific |-> specific]

None == [none |-> TRUE]

(***************************************************************************)
(* gpt_service.GPTService                                                  *)
(***************************************************************************)
\* GPTService.model_name (constants.DEFAULT_OPENAI_MODEL)
model_name == "gpt-4o-mini"

\* GPTService._build_fallback_payload: the "AI unavailable" template.
build_fallback_payload(language, source) ==
    [response |-> Text("ai_unavailable_template", <<>>, FALSE),
     language |-> language, source |-> source]

\* GPTService.generate_response.  client: whether the OpenAI client exists;
\* api: "ok" when chat.completions.create returns, "raises" when it raises.
\* The function catches every exception of the call itself, so it always
\* returns a dictionary (raised is FALSE in every case).
generate_response(client, api, context_data, language) ==
    IF ~client
    THEN [raised |-> FALSE,
          value  |-> build_fallback_payload(language, "no_openai_client")]
    ELSE IF api = "ok"
    THEN [raised |-> FALSE,
          value  |-> [response |-> Text("model_text", context_data, FALSE),
                      language |-> language, source |-> model_name]]
    ELSE [raised |-> FALSE,
          value  |-> Dset(build_fallback_payload(language, "fallback_error"),
                          "error", "api_error")]

(***************************************************************************)
(* TravelChatbot: duplicate map and global response cache                  *)
(***************************************************************************)
\* Variant: the global cache aged with the duplicate window.
GlobalFresh_DuplicateWindow(cache_age) == cache_age < DUPLICATE_WINDOW_SECONDS

\* get_response: cache_age < RESPONSE_CACHE_TTL_SECONDS
GlobalFresh(cache_age) == cache_age < RESPONSE_CACHE_TTL_SECONDS

\* Variant: the replay without a window.
DuplicateFresh_NoWindow(age) == TRUE

\* _replay_duplicate_response: (time.time() - timestamp) <= DUPLICATE_WINDOW_SECONDS
DuplicateFresh(age) == age <= DUPLICATE_WINDOW_SECONDS

\* TravelChatbot._replay_duplicate_response
replay_duplicate_response(recent, user_id, key, t) ==
    IF key = <<>> THEN None
    ELSE IF user_id \notin DOMAIN recent THEN None
    ELSE LET entry == recent[user_id] IN
         IF entry.query = key /\ DuplicateFresh(t - entry.timestamp)
         THEN Dset(Dset(entry.result, "duplicate", TRUE), "source",
                   CachedSuffix(Dget(entry.result, "source", "cache")))
         ELSE None

\* TravelChatbot._cache_response
cache_response(recent, user_id, key, payload, t) ==
    IF key = <<>> THEN recent
    ELSE Dset(recent, user_id,
              [query |-> key, timestamp |-> t, result |-> payload])

\* Variant: finalize_response without the global write.
finalize_cache_NoWrite(cache, key, payload) == cache

\* get_response.finalize_response: the global cache after the write
finalize_cache(cache, key, payload) ==
    IF key # <<>> THEN Dset(cache, key, payload) ELSE cache

finalize_cache_time(times, key, t) ==
    IF key # <<>> THEN Dset(times, key, t) ELSE times

Remove(d, k) == [x \in (DOMAIN d) \ {k} |-> d[x]]

(***************************************************************************)
(* TravelChatbot.get_response: the composer tiers                          *)
(***************************************************************************)
\* TravelChatbot._create_simple_response
create_simple_response(context_data, is_specific_place) ==
    IF context_data = <<>>
    THEN Text("simple_no_data", <<>>, FALSE)
    ELSE Text("simple_summary", context_data, is_specific_place)

\* The payload get_response computes when no cache answers.
\* matched: the trimmed retrieval result; query_type: "specific" or
\* "suggestions"; other_province: _mentions_other_province; api: outcome of
\* the model call.
compose(user_message, matched, query_type, other_province, api) ==
    LET language == detect_language(user_message)
        is_specific_place == query_type = "specific"
    IN  IF IsGreeting(user_message)
        THEN Payload(Text("greeting_text", <<>>, FALSE), <<>>, language,
                     "greeting", "greeting")
        ELSE IF other_province
        THEN Payload(Text("out_of_scope_apology", <<>>, FALSE), <<>>, language,
                     "out_of_scope", "general")
        ELSE IF strip(user_message) = <<>>
        THEN [response |-> Text("empty_query_prompt", <<>>, FALSE),
              structured_data |-> <<>>, language |-> language,
              source |-> "empty_query"]
        ELSE IF gpt_service # "none"
        THEN LET gpt_result ==
                   generate_response(gpt_service = "ready", api, matched, language)
             IN  IF ~gpt_result.raised
                 THEN Payload(gpt_result.value.response, matched, language,
                              Dget(gpt_result.value, "source", "openai"),
                              query_type)
                 ELSE Dset(Payload(create_simple_response(matched, is_specific_place),
                                   matched, language, "simple_fallback", query_type),
                           "gpt_error", "api_error")
        ELSE Payload(create_simple_response(matched, is_specific_place),
                     matched, language, "simple", query_type)

\* dedup_key of get_response
dedup_key_of(user_message) ==
    IF strip(user_message) # <<>>
    THEN normalized_query_key(strip(user_message))
    ELSE <<>>

\* TravelChatbot.get_response as a function of the state before the call:
\* the value returned, how it was served, and the three maps afterwards.
\* found: what the analysis and retrieval steps produce; when they raise
\* (found.raises) the exception leaves get_response before finalize_response.
get_response(user_message, user_id, found, other_province, api) ==
    LET dedup_key == dedup_key_of(user_message)
        hit       == dedup_key \in DOMAIN RESPONSE_CACHE
        cache_age == now - Dget(RESPONSE_CACHE_TIME, dedup_key, 0)
        \* the maps after the global check (an expired entry is deleted)
        cache1    == IF hit /\ ~GlobalFresh(cache_age)
                     THEN Remove(RESPONSE_CACHE, dedup_key)
                     ELSE RESPONSE_CACHE
        time1     == IF hit /\ ~GlobalFresh(cache_age)
                     THEN Remove(RESPONSE_CACHE_TIME, dedup_key)
                     ELSE RESPONSE_CACHE_TIME
        replay    == replay_duplicate_response(recent_requests, user_id,
                                               dedup_key, now)
        payload   == compose(user_message, found.matched, found.query_type,
                             other_province, api)
    IN  IF hit /\ GlobalFresh(cache_age)
        THEN [result |-> RESPONSE_CACHE[dedup_key], served |-> "global_cache",
              cache |-> RESPONSE_CACHE, times |-> RESPONSE_CACHE_TIME,
              recent |-> recent_requests]
        ELSE IF replay # None
        THEN [result |-> replay, served |-> "duplicate",
              cache |-> cache1, times |-> time1, recent |-> recent_requests]
        ELSE IF found.raises /\ ~IsGreeting(user_message)
        THEN [result |-> None, served |-> "raised",
              cache |-> cache1, times |-> time1, recent |-> recent_requests]
        ELSE [result |-> payload, served |-> "computed",
              cache  |-> finalize_cache(cache1, dedup_key, payload),
              times  |-> finalize_cache_time(time1, dedup_key, now),
              recent |-> cache_response(recent_requests, user_id, dedup_key,
                                        payload, now)]

\* TravelChatbot._pure_gpt_response: the answer without retrieval.
pure_gpt_response(user_message, language, api) ==
    IF gpt_service # "none"
       /\ ~generate_response(gpt_service = "ready", api, <<>>, language).raised
    THEN Payload(generate_response(gpt_service = "ready", api, <<>>,
                                   language).value.response,
                 <<>>, language, "gpt_fallback", "general")
    ELSE Payload(Text("static_persona_reply", <<>>, FALSE), <<>>, language,
                 "static_persona_fallback", "general")

\* 'fallback' in source, over the sources a payload can carry
ContainsFallback(source) ==
    source \in {"gpt_fallback", "static_persona_fallback", "simple_fallback",
                "fallback_error", "simple_fallback_cached",
                "fallback_error_cached"}

\* 'openai' in source
ContainsOpenai(source) ==
    source \in {"openai", "no_openai_client", "openai_cached",
                "no_openai_client_cached"}

\* Variant: no source qualifier.
qualify_source_Unqualified(db_connected, source) == source

\* get_chat_response: "Add source qualifier for clarity"
qualify_source(db_connected, source) ==
    IF ~db_connected /\ ContainsFallback(source) THEN source \o "_no_db"
    ELSE IF db_connected /\ ContainsOpenai(source) THEN "data+ai"
    ELSE IF db_connected /\ source = "simple" THEN "data+simple"
    ELSE source

\* get_chat_response: what is attached to the result dictionary in place
attach_model_info(db_connected, result) ==
    Dset(Dset(Dset(result, "model", "default_model"),
              "character", "NongPlaToo"),
         "source", qualify_source(db_connected, result.source))

\* Outcomes of the bounded connectivity probe of get_chat_response:
\* test_connection returns True or False, future.result times out,
\* get_db_service raises, or the database service failed to import.
ProbeOutcomes == {"true", "false", "timeout", "error", "unavailable"}

(***************************************************************************)
(* Actions of the chat flow.  Each takes the sets its inputs are drawn     *)
(* from, so that every specification states its own bounds.                *)
(***************************************************************************)
NoCall ==
    [op |-> "none", user |-> "", key |-> <<>>, time |-> 0,
     served |-> "none", probe |-> "none", api |-> "none", result |-> None]

\* Threads that serve requests (app.run serves each request on a thread of
\* its own, and POST /api/messages runs get_chat_response on a pool thread).
NumThreads == 2

Threads == 1..NumThreads

\* No timeout-wrapped call is in progress.
TimeoutIdle ==
    /\ site = "none"
    /\ caller = "idle"
    /\ worker = "none"
    /\ waited = 0
    /\ timed_out = FALSE
    /\ outcome = "none"

\* chat.py line 2199 and app.py line 121: both globals start as None.
SingletonIdle ==
    /\ CHATBOT = 0
    /\ CHATBOT_INSTANCE = 0
    /\ constructed = 0
    /\ thread_pc = [t \in Threads |-> "idle"]
    /\ thread_entry = [t \in Threads |-> "none"]
    /\ thread_bot = [t \in Threads |-> 0]

\* No search has been asked for.
\* No request under way, nothing cached, nothing geocoded.
NoRequest == [query |-> <<>>, blank |-> TRUE, local |-> FALSE]

NoSignals == [is_local |-> FALSE]

NoReference ==
    [target |-> <<>>, reference |-> <<"None">>, radius_km |-> <<"2">>,
     has_reference |-> FALSE]

NoCoords == [source |-> "None"]

RequestIdle ==
    /\ request_pc = "idle"
    /\ request = NoRequest
    /\ analysis_task = "none"
    /\ matcher_task = "none"
    /\ matcher_signals = NoSignals
    /\ location_ref = NoReference
    /\ coords = NoCoords
    /\ resolution = <<>>
    /\ location_aware_results = <<>>
    /\ matched_data = <<>>
    /\ result_type = "suggestions"
    /\ includes_local_term = FALSE
    /\ searches = {}
    /\ location_cache = {}
    /\ geocoded = {}
    /\ geocoder_calls = 0

FunctionIdle ==
    /\ fn_input = [fn |-> "none"]
    /\ fn_output = [status |-> "pending"]

HybridIdle ==
    /\ places_table = <<>>
    /\ query_limit = 0
    /\ keyword_weight = 0
    /\ search_env = "ok"
    /\ hybrid_phase = "idle"
    /\ semantic_results = <<>>
    /\ keyword_results = <<>>
    /\ hybrid_results = <<>>

\* No scope check is under way.
NoAnalysis == [keywords |-> <<>>, places |-> <<>>]

ScopeIdle ==
    /\ scope_pc = "idle"
    /\ scope_query = <<>>
    /\ scope_analysis = NoAnalysis
    /\ scope_is_local = FALSE
    /\ llm_calls = <<>>
    /\ scope_payload = [source |-> "none"]

\* The detector after __init__ (vad_service.py 64-67), before any chunk.
NoVadCall ==
    [fed |-> FALSE, has_speech |-> FALSE, was_speaking |-> FALSE,
     is_currently_speaking |-> FALSE, speech_has_ended |-> FALSE]

VadIdle ==
    /\ silence_frames = 0
    /\ speech_frames = 0
    /\ is_speaking = FALSE
    /\ silence_threshold = 0
    /\ vad_call = NoVadCall
    /\ silent_run = 0
    /\ spoken = FALSE

\* The memory after __init__: no conversation.
NoMemoryCall == [op |-> "none", user |-> "", idle |-> 0, returned |-> <<>>]

MemoryIdle ==
    /\ conversations = <<>>
    /\ memory_time = 0
    /\ memory_call = NoMemoryCall
    /\ added = <<>>
    /\ adds = 0

\* No counts file, nobody in the visit counter.
MissingFile == [exists |-> FALSE, total |-> 0, pages |-> <<>>]

VisitIdle ==
    /\ visit_file = MissingFile
    /\ visit_lock = 0
    /\ visitor_pc = [t \in Threads |-> "idle"]
    /\ visitor_path = [t \in Threads |-> <<>>]
    /\ visitor_counts = [t \in Threads |-> MissingFile]
    /\ completed = <<>>

\* No streaming request has arrived.
NoStreamRequest == [request_id |-> "", user_id |-> "", text |-> ""]

StreamIdle ==
    /\ ACTIVE_REQUESTS = <<>>
    /\ stream_time = 0
    /\ stream_pc = [t \in Threads |-> "idle"]
    /\ stream_request = [t \in Threads |-> NoStreamRequest]
    /\ stream_reply = [t \in Threads |-> 0]

\* Nothing cached, no search made.
NoMatchCall ==
    [query |-> "", keywords |-> <<>>, served |-> "none", results |-> <<>>,
     final_results |-> <<>>]

QcacheIdle ==
    /\ QUERY_RESULT_CACHE = <<>>
    /\ QUERY_RESULT_CACHE_TIME = <<>>
    /\ cache_clock = 0
    /\ original_results = <<>>
    /\ match_call = NoMatchCall

\* Every service but g is idle.
ServiceIdleExcept(g) ==
    /\ (g = "scope" \/ ScopeIdle)
    /\ (g = "vad" \/ VadIdle)
    /\ (g = "memory" \/ MemoryIdle)
    /\ (g = "visit" \/ VisitIdle)
    /\ (g = "stream" \/ StreamIdle)
    /\ (g = "qcache" \/ QcacheIdle)

ServiceIdle == ServiceIdleExcept("none")

\* Every service but g keeps its state.
ServiceFrame(g) ==
    /\ IF g = "scope" THEN TRUE ELSE UNCHANGED scopeVars
    /\ IF g = "vad" THEN TRUE ELSE UNCHANGED vadVars
    /\ IF g = "memory" THEN TRUE ELSE UNCHANGED memoryVars
    /\ IF g = "visit" THEN TRUE ELSE UNCHANGED visitVars
    /\ IF g = "stream" THEN TRUE ELSE UNCHANGED streamVars
    /\ IF g = "qcache" THEN TRUE ELSE UNCHANGED qcacheVars

\* The state after the module is loaded and the chatbot constructed.
\* gpt_service is None when the GPT module failed to import or GPTService()
\* raised, has no client when OPENAI_API_KEY is missing or OpenAI() raised.
ChatInit(services) ==
    /\ now = 0
    /\ RESPONSE_CACHE = <<>>
    /\ RESPONSE_CACHE_TIME = <<>>
    /\ recent_requests = <<>>
    /\ gpt_service \in services
    /\ lastCall = NoCall

\* The clock advances between requests.
Tick(instants) ==
    /\ \E t \in instants :
          /\ t > now
          /\ now' = t
    /\ UNCHANGED <<RESPONSE_CACHE, RESPONSE_CACHE_TIME, recent_requests,
                   gpt_service, lastCall>>
    /\ UNCHANGED <<timeoutVars, singletonVars, hybridVars,
                    functionVars, requestVars, serviceVars>>

\* The outcome of the model call as the request saw it: "none" when the
\* request never reached chat.completions.create.
api_seen(served, result, api) ==
    IF served \in {"computed", "no_db"}
       /\ gpt_service = "ready"
       /\ result.response.kind \in {"model_text", "ai_unavailable_template"}
    THEN api ELSE "none"

\* A call of TravelChatbot.get_response (chat_with_bot, the __main__ loop).
GetResponse(users, queries, retrievals, provinces, apis) ==
    \E user_id \in users, user_message \in queries, found \in retrievals,
       other_province \in provinces, api \in apis :
       \E r \in {get_response(user_message, user_id, found,
                                other_province /\ strip(user_message) # <<>>,
                                api)} :
           /\ RESPONSE_CACHE' = r.cache
           /\ RESPONSE_CACHE_TIME' = r.times
           /\ recent_requests' = r.recent
           /\ lastCall' = [op |-> "get_response", user |-> user_id,
                           key |-> dedup_key_of(user_message), time |-> now,
                           served |-> r.served, probe |-> "none",
                           api |-> api_seen(r.served, r.result, api),
                           result |-> r.result]
           /\ UNCHANGED <<now, gpt_service>>
           /\ UNCHANGED <<timeoutVars, singletonVars, hybridVars,
                           functionVars, requestVars, serviceVars>>

\* A call of get_chat_response (POST /api/query, POST /api/messages) whose
\* connectivity probe does not report a connection.
GetChatResponseNoDb(users, queries, apis, probes) ==
    \E user_id \in users, user_message \in queries, api \in apis,
       probe \in probes \ {"true"} :
       LET pure == pure_gpt_response(user_message,
                                     detect_language(user_message), api)
       IN  /\ lastCall' =
                [op |-> "get_chat_response", user |-> user_id,
                 key |-> dedup_key_of(user_message),
                 time |-> now, served |-> "no_db", probe |-> probe,
                 api |-> api_seen("no_db", pure, api),
                 result |-> attach_model_info(FALSE, pure)]
           /\ UNCHANGED <<now, RESPONSE_CACHE, RESPONSE_CACHE_TIME,
                          recent_requests, gpt_service>>
           /\ UNCHANGED <<timeoutVars, singletonVars, hybridVars,
                           functionVars, requestVars, serviceVars>>

\* A call of get_chat_response whose probe reports a connection.
GetChatResponseDb(users, queries, retrievals, provinces, apis) ==
    \E user_id \in users, user_message \in queries, found \in retrievals,
       other_province \in provinces, api \in apis :
       \E r \in {get_response(user_message, user_id, found,
                                other_province /\ strip(user_message) # <<>>,
                                api)},
          key \in {dedup_key_of(user_message)} :
       LET result == IF r.served = "raised" THEN None
                     ELSE attach_model_info(TRUE, r.result)
       IN  /\ RESPONSE_CACHE' = r.cache
           /\ RESPONSE_CACHE_TIME' = r.times
           \* the dictionary finalize_response stored in the duplicate map
           \* is the object get_chat_response goes on to modify
           /\ recent_requests' =
                IF r.served = "computed" /\ key # <<>>
                THEN Dset(r.recent, user_id,
                          [query |-> key, timestamp |-> now, result |-> result])
                ELSE r.recent
           /\ lastCall' =
                [op |-> "get_chat_response", user |-> user_id,
                 key |-> key, time |-> now,
                 served |-> r.served, probe |-> "true",
                 api |-> api_seen(r.served, r.result, api),
                 result |-> result]
           /\ UNCHANGED <<now, gpt_service>>
           /\ UNCHANGED <<timeoutVars, singletonVars, hybridVars,
                           functionVars, requestVars, serviceVars>>

(***************************************************************************)
(* Spec: the two caches.  Two users, two non-empty keys in different       *)
(* spellings and a blank query; the clock visits the instants at which an  *)
(* entry written at 0 is at the edge of the duplicate window (15, 16) and  *)
(* past the global TTL (60); entries written at 15 and 16 are then 45 and  *)
(* 44 seconds old.                                                         *)
(***************************************************************************)
Users == {"u1", "u2"}

Queries ==
    { <<" ">>,                   \* " "      (blank)
      <<"h", "i">>,              \* "hi"     (a greeting)
      <<"H", "i", " ">>,         \* "Hi "    (same key as "hi")
      <<" ", "I", " ", " ", "h">> }   \* " I  h" (key "i h")

Instants == {0, 15, 16, 60}

\* The analysis or retrieval step raised.
RetrievalRaises == [raises |-> TRUE, matched |-> <<>>, query_type |-> "none"]

CacheRetrievals ==
    { [raises |-> FALSE, matched |-> <<"p1">>, query_type |-> "specific"],
      RetrievalRaises }

Init ==
    /\ ChatInit({"ready"}) /\ TimeoutIdle /\ SingletonIdle /\ HybridIdle
    /\ FunctionIdle /\ RequestIdle /\ ServiceIdle

Next ==
    \/ Tick(Instants)
    \/ GetResponse(Users, Queries, CacheRetrievals, {FALSE}, ApiOutcomes)
    \/ GetChatResponseNoDb(Users, Queries, {"ok"}, {"timeout"})
    \/ GetChatResponseDb(Users, Queries, CacheRetrievals \ {RetrievalRaises},
                         {FALSE}, {"ok"})

Spec == Init /\ [][Next]_vars

\* A step of Spec that is a request (the clock stands still during one).
CallStep == now' = now /\ lastCall'.op # "none"

\* The request of this step goes through get_response.
ThroughGetResponse ==
    CallStep /\ lastCall'.served # "no_db"

(***************************************************************************)
(* SpecCompose: the composer tiers.  One user; every state of the GPT      *)
(* service, every retrieval outcome, every probe outcome; the clock jumps  *)
(* past the TTL so that a cached key is composed again.                    *)
(***************************************************************************)
ComposeQueries ==
    { <<" ">>, <<"h", "i">>, <<" ", "I", " ", " ", "h">> }

ComposeRetrievals ==
    { [raises |-> FALSE, matched |-> <<>>, query_type |-> "suggestions"],
      [raises |-> FALSE, matched |-> <<"p1">>, query_type |-> "specific"],
      [raises |-> FALSE, matched |-> <<"p1", "p2">>, query_type |-> "suggestions"],
      RetrievalRaises }

ComposeInstants == {0, 60}

InitCompose ==
    /\ ChatInit({"none", "no_client", "ready"})
    /\ TimeoutIdle /\ SingletonIdle /\ HybridIdle
    /\ FunctionIdle /\ RequestIdle /\ ServiceIdle

NextCompose ==
    \/ Tick(ComposeInstants)
    \/ GetResponse({"u1"}, ComposeQueries, ComposeRetrievals, BOOLEAN,
                   ApiOutcomes)
    \/ GetChatResponseNoDb({"u1"}, ComposeQueries, ApiOutcomes, ProbeOutcomes)
    \/ GetChatResponseDb({"u1"}, ComposeQueries, ComposeRetrievals, BOOLEAN,
                         ApiOutcomes)

SpecCompose == InitCompose /\ [][NextCompose]_vars


(***************************************************************************)
(* Claims about the caches (checked under Spec)                            *)
(***************************************************************************)
\* The sources a computed payload can carry.
BaseSources ==
    {"greeting", "out_of_scope", "empty_query", model_name,
     "no_openai_client", "fallback_error", "simple_fallback", "simple"}

HasCachedSuffix(source) == \E b \in BaseSources : source = CachedSuffix(b)

IsDuplicate(result) == Dget(result, "duplicate", FALSE) = TRUE

\* C1: when the same user repeats the same normalized, non-empty query
\* through get_response within DUPLICATE_WINDOW_SECONDS of the first call,
\* the second response carries duplicate=true and a source suffixed
\* '_cached'; a repeat after the window does not carry duplicate=true.
\* (Stated for a call and the next call; the code violates it.)
C1_RepeatIsFlaggedDuplicate ==
    [][ ( /\ CallStep
          /\ lastCall.op = "get_response" /\ lastCall'.op = "get_response"
          /\ lastCall.served # "raised" /\ lastCall'.served # "raised"
          /\ lastCall'.user = lastCall.user
          /\ lastCall'.key = lastCall.key
          /\ lastCall.key # <<>> )
        => IF now - lastCall.time <= DUPLICATE_WINDOW_SECONDS
           THEN /\ IsDuplicate(lastCall'.result)
                /\ HasCachedSuffix(lastCall'.result.source)
           ELSE ~IsDuplicate(lastCall'.result) ]_vars

\* C2: once a payload is stored under key K (the payload get_response
\* computed and returned), every get_response call whose query normalizes to
\* K while the entry is younger than RESPONSE_CACHE_TTL_SECONDS returns a
\* payload equal field for field to the stored one, whoever calls, and leaves
\* the stored entry as it is.
C2_CacheRoundTrip ==
    [][ /\ ( /\ CallStep /\ lastCall'.op = "get_response"
             /\ lastCall'.key \in DOMAIN RESPONSE_CACHE
             /\ now - RESPONSE_CACHE_TIME[lastCall'.key]
                  < RESPONSE_CACHE_TTL_SECONDS )
           => /\ lastCall'.result = RESPONSE_CACHE[lastCall'.key]
              /\ RESPONSE_CACHE' = RESPONSE_CACHE
              /\ RESPONSE_CACHE_TIME' = RESPONSE_CACHE_TIME
        /\ ( /\ CallStep /\ lastCall'.op = "get_response"
             /\ lastCall'.served = "computed" /\ lastCall'.key # <<>> )
           => /\ lastCall'.key \in DOMAIN RESPONSE_CACHE'
              /\ RESPONSE_CACHE'[lastCall'.key] = lastCall'.result ]_vars

\* C2 witness: a user who never had a response computed is answered from the
\* global cache, some seconds after the entry was stored.
C2_Witness ==
    /\ lastCall.op = "get_response" /\ lastCall.served = "global_cache"
    /\ lastCall.user \notin DOMAIN recent_requests
    /\ lastCall.time > RESPONSE_CACHE_TIME[lastCall.key]
    /\ lastCall.result = RESPONSE_CACHE[lastCall.key]

\* The state before a request holds an expired entry for it.
GlobalExpired(k) ==
    /\ k \in DOMAIN RESPONSE_CACHE
    /\ now - RESPONSE_CACHE_TIME[k] >= RESPONSE_CACHE_TTL_SECONDS

UserExpired(u, k) ==
    /\ u \in DOMAIN recent_requests
    /\ recent_requests[u].query = k
    /\ now - recent_requests[u].timestamp > DUPLICATE_WINDOW_SECONDS

\* The entry of map m under x is gone after the step, or was written anew.
GlobalEvicted(k) ==
    k \in DOMAIN RESPONSE_CACHE' => RESPONSE_CACHE_TIME'[k] = now

UserEvicted(u) ==
    u \in DOMAIN recent_requests' => recent_requests'[u].timestamp = now

\* C3 as claimed: an entry older than its TTL is never used to answer, and
\* the access that finds an entry expired removes it from its map, for the
\* global cache and for the per-user duplicate map alike.
C3_ExpiredEntriesEvictedOnRead ==
    [][ ThroughGetResponse =>
          /\ GlobalExpired(lastCall'.key)
               => lastCall'.served # "global_cache" /\ GlobalEvicted(lastCall'.key)
          /\ UserExpired(lastCall'.user, lastCall'.key)
               => /\ lastCall'.served # "duplicate"
                  /\ lastCall'.served # "global_cache"
                       => UserEvicted(lastCall'.user) ]_vars

\* C3 amended: an entry older than its TTL is never used to answer; the
\* access that finds a global entry expired removes it; the access that
\* finds a per-user entry expired leaves it in the map, where it stays until
\* a response computed for that user overwrites it.
C3_ExpiredEntriesNeverServed ==
    [][ ThroughGetResponse =>
          /\ GlobalExpired(lastCall'.key)
               => lastCall'.served # "global_cache" /\ GlobalEvicted(lastCall'.key)
          /\ UserExpired(lastCall'.user, lastCall'.key)
               => lastCall'.served # "duplicate"
          /\ lastCall'.served = "global_cache"
               => ~GlobalExpired(lastCall'.key)
          /\ lastCall'.served = "duplicate"
               => ~UserExpired(lastCall'.user, lastCall'.key)
          /\ ( /\ UserExpired(lastCall'.user, lastCall'.key)
               /\ lastCall'.served \notin {"global_cache", "computed"} )
               => recent_requests' = recent_requests ]_vars

\* C3 witness: a request found both entries expired and raised before a
\* response was computed: the global entry is gone, the per-user entry is
\* still in the map.
C3_Witness ==
    /\ lastCall.served = "raised"
    /\ lastCall.key \notin DOMAIN RESPONSE_CACHE
    /\ lastCall.user \in DOMAIN recent_requests
    /\ recent_requests[lastCall.user].query = lastCall.key
    /\ now - recent_requests[lastCall.user].timestamp > DUPLICATE_WINDOW_SECONDS

\* C4 as claimed: a response computed and returned by get_response or
\* get_chat_response without being served from a cache is, when returned,
\* in the per-user map under the caller and in the global cache under the
\* normalized query.
C4_ComputedResponseIsInBothCaches ==
    lastCall.served \in {"computed", "no_db"} =>
        /\ lastCall.user \in DOMAIN recent_requests
        /\ recent_requests[lastCall.user].query = lastCall.key
        /\ recent_requests[lastCall.user].result = lastCall.result
        /\ lastCall.key \in DOMAIN RESPONSE_CACHE
        /\ RESPONSE_CACHE[lastCall.key] = lastCall.result

\* C4 amended: a response get_response computes for a query whose
\* normalized text is non-empty is, when get_response returns it, in the
\* per-user map under the caller and in the global cache under the
\* normalized query, both stamped with the time of the call.  A response
\* to a blank query and the no-database answer of get_chat_response are
\* written to neither map, and what get_chat_response attaches to a computed
\* response (model, character, source qualifier) reaches the per-user entry
\* but not the global one.
C4_WriteAfterCompute ==
    [][ CallStep =>
          /\ (lastCall'.served = "computed" /\ lastCall'.key # <<>>)
               => /\ lastCall'.user \in DOMAIN recent_requests'
                  /\ recent_requests'[lastCall'.user] =
                       [query |-> lastCall'.key, timestamp |-> now,
                        result |-> lastCall'.result]
                  /\ lastCall'.key \in DOMAIN RESPONSE_CACHE'
                  /\ RESPONSE_CACHE_TIME'[lastCall'.key] = now
                  /\ lastCall'.op = "get_response"
                       => RESPONSE_CACHE'[lastCall'.key] = lastCall'.result
                  /\ lastCall'.op = "get_chat_response"
                       => attach_model_info(TRUE, RESPONSE_CACHE'[lastCall'.key])
                            = lastCall'.result
          /\ ( \/ lastCall'.served = "no_db"
               \/ lastCall'.served = "computed" /\ lastCall'.key = <<>> )
               => /\ RESPONSE_CACHE' = RESPONSE_CACHE
                  /\ RESPONSE_CACHE_TIME' = RESPONSE_CACHE_TIME
                  /\ recent_requests' = recent_requests ]_vars

\* C4 witness: get_response has just computed a response for the key "i h",
\* written as " I  h", and both maps hold it.
C4_Witness ==
    /\ lastCall.op = "get_response" /\ lastCall.served = "computed"
    /\ lastCall.key = <<"i", " ", "h">>
    /\ recent_requests[lastCall.user].result = lastCall.result
    /\ RESPONSE_CACHE[lastCall.key] = lastCall.result
    /\ now > 0

SimpleKinds == {"simple_summary", "simple_no_data"}

\* C6: in get_response with a GPT service, when the model call fails the
\* response is the templated summary of the retrieved records, its source is
\* "simple_fallback" and the error string is attached as gpt_error.
\* (The code violates it.)
C6_ModelFailureGivesSimpleFallback ==
    ( /\ lastCall.op = "get_response" /\ lastCall.served = "computed"
      /\ lastCall.api = "raises" )
    => /\ lastCall.result.source = "simple_fallback"
       /\ lastCall.result.response.kind \in SimpleKinds
       /\ "gpt_error" \in DOMAIN lastCall.result

\* C7: when the LLM client could not be constructed, a response get_response
\* composes from retrieval is the templated record summary of
\* _create_simple_response.  (The code violates it.)
C7_NoClientGivesSimpleResponse ==
    ( /\ lastCall.op = "get_response" /\ lastCall.served = "computed"
      /\ gpt_service \in {"none", "no_client"}
      /\ lastCall.result.source \notin {"greeting", "out_of_scope", "empty_query"} )
    => lastCall.result.response.kind \in SimpleKinds


(***************************************************************************)
(* SpecTimeout: a call wrapped in a timeout.  The three sites have the     *)
(* same shape:                                                             *)
(*     with ThreadPoolExecutor(...) as executor:                           *)
(*         future = executor.submit(task)                                  *)
(*         try: value = future.result(timeout=T)                           *)
(*         except TimeoutError: <fallback>                                 *)
(* Leaving the with block, by falling out of it or by the return inside    *)
(* the handler, runs executor.__exit__, which is shutdown(wait=True): it   *)
(* joins the worker thread.                                                *)
(***************************************************************************)
DB_PROBE_TIMEOUT == 5
MAPS_SEARCH_TIMEOUT == 15
CHAT_TIMEOUT_SECONDS == 180

Sites == {"db_probe", "maps_search", "chat_call"}

TimeoutOf(s) ==
    CASE s = "db_probe" -> DB_PROBE_TIMEOUT
      [] s = "maps_search" -> MAPS_SEARCH_TIMEOUT
      [] s = "chat_call" -> CHAT_TIMEOUT_SECONDS

\* What the TimeoutError handler of each site goes on with.
FallbackOf(s) ==
    CASE s = "db_probe" -> "db_connected_false"
      [] s = "maps_search" -> "empty_list"
      [] s = "chat_call" -> "http_504"

ChatQuiet == ChatInit({"ready"})

\* executor.submit(task): the worker starts, the caller enters future.result.
Submit ==
    /\ caller = "idle"
    /\ \E s \in Sites : site' = s
    /\ caller' = "future_result"
    /\ worker' = "running"
    /\ waited' = 0
    /\ timed_out' = FALSE
    /\ outcome' = "none"
    /\ UNCHANGED <<chatVars, singletonVars, hybridVars,
                    functionVars, requestVars, serviceVars>>

\* A second passes while the caller waits in future.result(timeout=T).
WorkerRuns ==
    /\ caller = "future_result"
    /\ worker = "running"
    /\ waited < TimeoutOf(site)
    /\ waited' = waited + 1
    /\ UNCHANGED <<site, caller, worker, timed_out, outcome>>
    /\ UNCHANGED <<chatVars, singletonVars, hybridVars,
                    functionVars, requestVars, serviceVars>>

\* The task returns.  Nothing obliges it to: test_connection, places_nearby
\* and get_chat_response all wait on a remote service.
WorkerFinishes ==
    /\ worker = "running"
    /\ worker' = "done"
    /\ UNCHANGED <<site, caller, waited, timed_out, outcome>>
    /\ UNCHANGED <<chatVars, singletonVars, hybridVars,
                    functionVars, requestVars, serviceVars>>

\* future.result returns the task's value; the caller leaves the with block.
ResultReturns ==
    /\ caller = "future_result"
    /\ worker = "done"
    /\ caller' = "executor_exit"
    /\ outcome' = "worker_value"
    /\ UNCHANGED <<site, worker, waited, timed_out>>
    /\ UNCHANGED <<chatVars, singletonVars, hybridVars,
                    functionVars, requestVars, serviceVars>>

\* future.result raises TimeoutError; the handler sets the fallback and the
\* caller leaves the with block.
ResultTimesOut ==
    /\ caller = "future_result"
    /\ worker = "running"
    /\ waited = TimeoutOf(site)
    /\ timed_out' = TRUE
    /\ outcome' = FallbackOf(site)
    /\ caller' = "executor_exit"
    /\ UNCHANGED <<site, worker, waited>>
    /\ UNCHANGED <<chatVars, singletonVars, hybridVars,
                    functionVars, requestVars, serviceVars>>

\* executor.__exit__: shutdown(wait=True) returns once the worker is done.
ExecutorExit ==
    /\ caller = "executor_exit"
    /\ worker = "done"
    /\ caller' = "returned"
    /\ UNCHANGED <<site, worker, waited, timed_out, outcome>>
    /\ UNCHANGED <<chatVars, singletonVars, hybridVars,
                    functionVars, requestVars, serviceVars>>

\* The caller has gone on; the next wrapped call can start.
NextCall ==
    /\ caller = "returned"
    /\ site' = "none"
    /\ caller' = "idle"
    /\ worker' = "none"
    /\ waited' = 0
    /\ timed_out' = FALSE
    /\ outcome' = "none"
    /\ UNCHANGED <<chatVars, singletonVars, hybridVars,
                    functionVars, requestVars, serviceVars>>

InitTimeout ==
    /\ ChatQuiet /\ TimeoutIdle /\ SingletonIdle /\ HybridIdle
    /\ FunctionIdle /\ RequestIdle /\ ServiceIdle

NextTimeout ==
    \/ Submit
    \/ WorkerRuns
    \/ WorkerFinishes
    \/ ResultReturns
    \/ ResultTimesOut
    \/ ExecutorExit
    \/ NextCall

SpecTimeout == InitTimeout /\ [][NextTimeout]_vars

\* A step of the calling thread.
CallerStep == ResultReturns \/ ResultTimesOut \/ ExecutorExit \/ NextCall

\* C8: once the timeout of a wrapped call (DB probe, maps search, chat call
\* of POST /api/messages) has fired, the caller goes on without waiting for
\* the worker: whatever the worker does, the caller has a step to take until
\* it has returned.  (The code violates it.)
C8_CallerProceedsAfterTimeout ==
    (timed_out /\ caller # "returned") => ENABLED CallerStep


(***************************************************************************)
(* SpecSingleton: the lazily created chatbot.  chat.py keeps one in        *)
(* _CHATBOT, created by chat_with_bot, chat_with_bot_stream and            *)
(* get_chat_response; app.py keeps one in _CHATBOT_INSTANCE, created by    *)
(* get_chatbot.  Each entry point tests its global and assigns it without  *)
(* a lock, so another thread can run between the test and the assignment.  *)
(***************************************************************************)
Entries ==
    {"chat_with_bot", "chat_with_bot_stream", "get_chat_response",
     "get_chatbot"}

\* The global an entry point reads and assigns.
UsesAppGlobal(entry) == entry = "get_chatbot"

GlobalOf(entry) == IF UsesAppGlobal(entry) THEN CHATBOT_INSTANCE ELSE CHATBOT

\* A request thread calls an entry point.
Enter(t) ==
    /\ thread_pc[t] = "idle"
    /\ \E e \in Entries : thread_entry' = [thread_entry EXCEPT ![t] = e]
    /\ thread_pc' = [thread_pc EXCEPT ![t] = "test"]
    /\ UNCHANGED <<CHATBOT, CHATBOT_INSTANCE, constructed, thread_bot>>
    /\ UNCHANGED <<chatVars, timeoutVars, hybridVars,
                    functionVars, requestVars, serviceVars>>

\* if _CHATBOT is None: / if _CHATBOT_INSTANCE is None:
TestGlobal(t) ==
    /\ thread_pc[t] = "test"
    /\ thread_pc' = [thread_pc EXCEPT ![t] =
                        IF GlobalOf(thread_entry[t]) = 0 THEN "construct"
                        ELSE "use"]
    /\ UNCHANGED <<CHATBOT, CHATBOT_INSTANCE, constructed, thread_entry,
                   thread_bot>>
    /\ UNCHANGED <<chatVars, timeoutVars, hybridVars,
                    functionVars, requestVars, serviceVars>>

\* _CHATBOT = TravelChatbot() / _CHATBOT_INSTANCE = TravelChatbot()
Construct(t) ==
    /\ thread_pc[t] = "construct"
    /\ constructed' = constructed + 1
    /\ IF UsesAppGlobal(thread_entry[t])
       THEN CHATBOT_INSTANCE' = constructed + 1 /\ CHATBOT' = CHATBOT
       ELSE CHATBOT' = constructed + 1 /\ CHATBOT_INSTANCE' = CHATBOT_INSTANCE
    /\ thread_pc' = [thread_pc EXCEPT ![t] = "use"]
    /\ UNCHANGED <<thread_entry, thread_bot>>
    /\ UNCHANGED <<chatVars, timeoutVars, hybridVars,
                    functionVars, requestVars, serviceVars>>

\* get_chatbot: TravelChatbot() raised, the function returns None.
ConstructFails(t) ==
    /\ thread_pc[t] = "construct"
    /\ UsesAppGlobal(thread_entry[t])
    /\ thread_pc' = [thread_pc EXCEPT ![t] = "idle"]
    /\ thread_bot' = [thread_bot EXCEPT ![t] = 0]
    /\ UNCHANGED <<CHATBOT, CHATBOT_INSTANCE, constructed, thread_entry>>
    /\ UNCHANGED <<chatVars, timeoutVars, hybridVars,
                    functionVars, requestVars, serviceVars>>

\* _CHATBOT.get_response(...) / return _CHATBOT_INSTANCE: the global is
\* read again and that instance serves the request.
Use(t) ==
    /\ thread_pc[t] = "use"
    /\ thread_bot' = [thread_bot EXCEPT ![t] = GlobalOf(thread_entry[t])]
    /\ thread_pc' = [thread_pc EXCEPT ![t] = "idle"]
    /\ UNCHANGED <<CHATBOT, CHATBOT_INSTANCE, constructed, thread_entry>>
    /\ UNCHANGED <<chatVars, timeoutVars, hybridVars,
                    functionVars, requestVars, serviceVars>>

InitSingleton ==
    /\ ChatQuiet /\ TimeoutIdle /\ SingletonIdle /\ HybridIdle
    /\ FunctionIdle /\ RequestIdle /\ ServiceIdle

NextSingleton ==
    \E t \in Threads :
        \/ Enter(t)
        \/ TestGlobal(t)
        \/ Construct(t)
        \/ ConstructFails(t)
        \/ Use(t)

SpecSingleton == InitSingleton /\ [][NextSingleton]_vars

\* C9: the chatbot is a process-wide singleton: under every interleaving of
\* requests through chat_with_bot, chat_with_bot_stream, get_chat_response
\* and get_chatbot, TravelChatbot is constructed at most once.
\* (The code violates it.)
C9_AtMostOneChatbot == constructed <= 1


(***************************************************************************)
(* SpecHybrid: search_places_hybrid over a small table.  A row says        *)
(* whether the query matches one of the five ILIKE columns and how far the *)
(* row's embedding is from the query's (cosine distance, in hundredths),   *)
(* or that the row has no embedding.  Scores are in hundredths, the        *)
(* keyword weight in percent, so combined scores are in ten-thousandths.   *)
(***************************************************************************)
NumPlaces == 3
MaxLimit == 3

PlaceIds == 1..NumPlaces

NoEmbedding == -1

\* Cosine distances: identical, near, and beyond 1 (similarity clamps to 0).
Distances == {0, 40, 150}

KeywordWeights == {0, 30, 100}

SearchEnvs == {"ok", "no_vector", "db_down"}

Min(a, b) == IF a <= b THEN a ELSE b

Max(a, b) == IF a >= b THEN a ELSE b

Ids(results) == {results[i].id : i \in DOMAIN results}

\* place_dict['similarity_score'] = max(0.0, 1.0 - sim_val)
similarity_score(distance) == Max(0, 100 - distance)

RECURSIVE Ascending(_)
Ascending(S) ==
    IF S = {} THEN <<>>
    ELSE LET m == CHOOSE x \in S : \A y \in S : x <= y
         IN  <<m>> \o Ascending(S \ {m})

\* search_places: the rows matching the keyword, by id, at most limit of
\* them; [] when the database raises.
search_places(table, limit, env) ==
    IF env = "db_down" THEN <<>>
    ELSE LET hits == {p \in DOMAIN table : table[p].keyword_hit}
             byId == Ascending(hits)
         IN  [i \in 1..Min(limit, Len(byId)) |-> [id |-> byId[i]]]

\* search_places_semantic: the rows with an embedding, nearest first, at
\* most limit of them, in any order the database gives to equal distances;
\* [] when pgvector is missing or anything raises.
search_places_semantic(table, limit, env) ==
    IF env # "ok" THEN {<<>>}
    ELSE LET emb == {p \in DOMAIN table : table[p].distance # NoEmbedding}
             n == Min(limit, Cardinality(emb))
             orders ==
               {f \in [1..n -> emb] :
                   /\ \A i, j \in 1..n : i # j => f[i] # f[j]
                   /\ \A i, j \in 1..n :
                        i < j => table[f[i]].distance <= table[f[j]].distance
                   /\ \A q \in emb \ {f[i] : i \in 1..n} :
                        \A i \in 1..n :
                            table[f[i]].distance <= table[q].distance}
         IN  {[i \in 1..n |->
                 [id |-> f[i],
                  similarity_score |-> similarity_score(table[f[i]].distance)]]
              : f \in orders}

\* The scoring dict after both loops, in insertion order.
merge_scores(semantic, keyword) ==
    LET fromSemantic ==
            [i \in DOMAIN semantic |->
                [id |-> semantic[i].id,
                 semantic_score |-> semantic[i].similarity_score,
                 keyword_score |->
                    IF semantic[i].id \in Ids(keyword) THEN 100 ELSE 0]]
        test(place) == place.id \notin Ids(semantic)
        keywordOnly == SelectSeq(keyword, test)
    IN  fromSemantic \o
        [i \in DOMAIN keywordOnly |->
            [id |-> keywordOnly[i].id, semantic_score |-> 0,
             keyword_score |-> 100]]

\* semantic_score * (1 - keyword_weight) + keyword_score * keyword_weight
combined_score(entry, weight) ==
    entry.semantic_score * (100 - weight) + entry.keyword_score * weight

with_combined_score(scores, weight) ==
    [i \in DOMAIN scores |->
        [id |-> scores[i].id,
         semantic_score |-> scores[i].semantic_score,
         keyword_score |-> scores[i].keyword_score,
         combined_score |-> combined_score(scores[i], weight)]]

\* One entry put into a list sorted by falling combined_score, after the
\* entries that score the same (sorted(..., reverse=True) keeps the order
\* of equal keys).
RECURSIVE InsertDescending(_, _)
InsertDescending(entry, sortedSeq) ==
    IF sortedSeq = <<>> THEN <<entry>>
    ELSE IF Head(sortedSeq).combined_score >= entry.combined_score
         THEN <<Head(sortedSeq)>> \o InsertDescending(entry, Tail(sortedSeq))
         ELSE <<entry>> \o sortedSeq

RECURSIVE SortFrom(_, _)
SortFrom(entries, sortedSeq) ==
    IF entries = <<>> THEN sortedSeq
    ELSE SortFrom(Tail(entries), InsertDescending(Head(entries), sortedSeq))

\* Variant: the entries left in insertion order.
sorted_descending_Unsorted(entries) == entries

\* sorted(scores.values(), key=combined_score, reverse=True)
sorted_descending(entries) == SortFrom(entries, <<>>)

\* search_places_hybrid, given what the two searches returned
search_places_hybrid(semantic, keyword, limit, weight) ==
    LET ranked == sorted_descending(
                      with_combined_score(merge_scores(semantic, keyword),
                                          weight))
    IN  SubSeq(ranked, 1, Min(limit, Len(ranked)))

\* search_places_hybrid(query, limit, keyword_weight)
SearchPlacesHybrid ==
    /\ hybrid_phase = "input"
    /\ \E semantic \in search_places_semantic(places_table, query_limit,
                                              search_env),
          keyword \in {search_places(places_table, query_limit, search_env)} :
          /\ semantic_results' = semantic
          /\ keyword_results' = keyword
          /\ hybrid_results' =
               search_places_hybrid(semantic, keyword, query_limit,
                                    keyword_weight)
    /\ hybrid_phase' = "done"
    /\ UNCHANGED <<places_table, query_limit, keyword_weight, search_env>>
    /\ UNCHANGED <<chatVars, timeoutVars, singletonVars,
                    functionVars, requestVars, serviceVars>>

\* A table, a limit, a weight and an environment are given.
InitHybrid ==
    /\ ChatQuiet /\ TimeoutIdle /\ SingletonIdle /\ FunctionIdle /\ RequestIdle /\ ServiceIdle
    /\ places_table \in [PlaceIds -> [keyword_hit : BOOLEAN,
                                      distance : Distances \cup {NoEmbedding}]]
    /\ query_limit \in 0..MaxLimit
    /\ keyword_weight \in KeywordWeights
    /\ search_env \in SearchEnvs
    /\ hybrid_phase = "input"
    /\ semantic_results = <<>>
    /\ keyword_results = <<>>
    /\ hybrid_results = <<>>

NextHybrid == SearchPlacesHybrid

SpecHybrid == InitHybrid /\ [][NextHybrid]_vars

\* The scores the claim gives a place: its similarity if the semantic
\* search returned it, 1 if the keyword search returned it.
SemanticOf(id) ==
    IF id \in Ids(semantic_results)
    THEN similarity_score(places_table[id].distance) ELSE 0

KeywordOf(id) == IF id \in Ids(keyword_results) THEN 100 ELSE 0

\* C10: for a limit L >= 0, search_places_hybrid returns at most L results,
\* each in the keyword result set or the semantic result set, no place id
\* twice, in order of non-increasing combined_score, where combined_score is
\* semantic_similarity * (1 - keyword_weight) + keyword_score *
\* keyword_weight and keyword_score is 1 for a keyword hit, else 0.
C10_HybridResults ==
    hybrid_phase = "done" =>
        /\ Len(hybrid_results) <= query_limit
        /\ Ids(hybrid_results) \subseteq
              Ids(keyword_results) \cup Ids(semantic_results)
        /\ \A i, j \in DOMAIN hybrid_results :
              i # j => hybrid_results[i].id # hybrid_results[j].id
        /\ \A i \in DOMAIN hybrid_results :
              hybrid_results[i].combined_score =
                  SemanticOf(hybrid_results[i].id) * (100 - keyword_weight)
                  + KeywordOf(hybrid_results[i].id) * keyword_weight
        /\ \A i, j \in DOMAIN hybrid_results :
              i < j => hybrid_results[i].combined_score
                         >= hybrid_results[j].combined_score

\* C10 witness: the two searches returned more places than the limit, and
\* the result holds a place only the keyword search found ahead of a place
\* only the semantic search found.
C10_Witness ==
    /\ hybrid_phase = "done"
    /\ query_limit >= 2
    /\ Len(hybrid_results) = query_limit
    /\ Cardinality(Ids(keyword_results) \cup Ids(semantic_results))
         > query_limit
    /\ \E i, j \in DOMAIN hybrid_results :
          /\ i < j
          /\ hybrid_results[i].id \notin Ids(semantic_results)
          /\ hybrid_results[j].id \notin Ids(keyword_results)

(***************************************************************************)
(* The keyword searches of db.py: search_places, search_main_attractions   *)
(* and search_places_near_location, each called once on a places table.    *)
(***************************************************************************)

\* What a call gave its caller.
Returned(value) == [status |-> "returned", value |-> value]

Raised(error) == [status |-> "raised", error |-> error]

Pending == [status |-> "pending"]

\* The database as init_db() and the query find it: reachable, refusing
\* the connection, or configured with a DB_CONNECT_TIMEOUT_SECONDS that is
\* not a number.
DbEnvs == {"ok", "db_down", "bad_connect_timeout"}

\* init_db() -> get_engine(): int(os.getenv("DB_CONNECT_TIMEOUT_SECONDS"))
\* raises ValueError; an unreachable database raises OperationalError, a
\* SQLAlchemyError.
db_error(db_env) ==
    CASE db_env = "ok" -> "none"
      [] db_env = "db_down" -> "SQLAlchemyError"
      [] db_env = "bad_connect_timeout" -> "ValueError"

\* try: ... except SQLAlchemyError: return []. Any other exception leaves
\* the function.
except_SQLAlchemyError(error, value) ==
    IF error = "none" THEN Returned(value)
    ELSE IF error = "SQLAlchemyError" THEN Returned(<<>>)
    ELSE Raised(error)

AttractionTypes == {"main_attraction", "market"}

NoType == "None"

\* search_places(keyword, limit, attraction_type): the statement filters
\* on the keyword alone, orders by id and limits; attraction_type is not
\* part of it.
search_places_outcome(table, limit, attraction_type, db_env) ==
    LET hits == {p \in DOMAIN table : table[p].keyword_hit}
        byId == Ascending(hits)
        results == [i \in 1..Min(limit, Len(byId)) |->
                       [id |-> byId[i],
                        attraction_type |-> table[byId[i]].attraction_type]]
    IN  except_SQLAlchemyError(db_error(db_env), results)

\* search_main_attractions(keyword, limit)
search_main_attractions(table, limit, db_env) ==
    search_places_outcome(table, limit, "main_attraction", db_env)

\* round(float(distance), 2): to the nearest hundredth of a kilometre,
\* here ten metres (the distances drawn below are never half-way).
round2(metres) == ((metres + 5) \div 10) * 10

\* place_dict['_distance_km'] = round(float(distance), 2) if distance
\* else None: a distance of zero is falsy.
distance_km(metres) ==
    IF metres # 0 THEN [numeric |-> TRUE, metres |-> round2(metres)]
    ELSE [numeric |-> FALSE]

\* The rows search_places_near_location may return: they match the
\* keyword, have coordinates and lie within the radius; nearest first, in
\* any order the database gives to equal distances; at most limit.
near_location_rows(table, radius, limit) ==
    LET hits == {p \in DOMAIN table :
                    /\ table[p].keyword_hit
                    /\ table[p].has_coordinates
                    /\ table[p].distance <= radius}
        n == Min(limit, Cardinality(hits))
    IN  {f \in [1..n -> hits] :
            /\ \A i, j \in 1..n : i # j => f[i] # f[j]
            /\ \A i, j \in 1..n :
                 i < j => table[f[i]].distance <= table[f[j]].distance
            /\ \A q \in hits \ {f[i] : i \in 1..n} :
                 \A i \in 1..n : table[f[i]].distance <= table[q].distance}

\* search_places_near_location(keyword, center_lat, center_lng, radius_km,
\* limit): the possible outcomes.
search_places_near_location(table, radius, limit, db_env) ==
    {except_SQLAlchemyError(db_error(db_env),
        [i \in DOMAIN f |->
            [id |-> f[i],
             has_coordinates |-> table[f[i]].has_coordinates,
             distance_km |-> distance_km(table[f[i]].distance)]])
     : f \in near_location_rows(table, radius, limit)}

\* Distances from the centre, in metres: at the centre, inside and outside
\* the radii below.
CentreDistances == {0, 996, 2004}

Radii == {1000, 2000}

\* A row of the places table as the proximity search sees it.
NearRows ==
    {[keyword_hit |-> FALSE, has_coordinates |-> TRUE, distance |-> 996],
     [keyword_hit |-> TRUE, has_coordinates |-> FALSE, distance |-> 996]}
    \cup [keyword_hit : {TRUE}, has_coordinates : {TRUE},
          distance : CentreDistances]

SearchPlacesInputs ==
    [fn : {"search_places"},
     table : [PlaceIds -> [keyword_hit : BOOLEAN,
                           attraction_type : AttractionTypes]],
     limit : 0..MaxLimit,
     attraction_type : AttractionTypes \cup {NoType},
     db_env : DbEnvs]

SearchMainAttractionsInputs ==
    [fn : {"search_main_attractions"},
     table : [PlaceIds -> [keyword_hit : BOOLEAN,
                           attraction_type : AttractionTypes]],
     limit : 0..MaxLimit,
     db_env : DbEnvs]

SearchNearLocationInputs ==
    [fn : {"search_places_near_location"},
     table : [PlaceIds -> NearRows],
     radius : Radii,
     limit : 0..MaxLimit,
     db_env : DbEnvs]

OthersIdle ==
    /\ ChatQuiet /\ TimeoutIdle /\ SingletonIdle /\ HybridIdle /\ RequestIdle
    /\ ServiceIdle

InitSearch ==
    /\ OthersIdle
    /\ fn_input \in SearchPlacesInputs \cup SearchMainAttractionsInputs
                      \cup SearchNearLocationInputs
    /\ fn_output = Pending

SearchPlaces ==
    /\ fn_output = Pending
    /\ fn_input.fn = "search_places"
    /\ fn_output' = search_places_outcome(fn_input.table, fn_input.limit,
                        fn_input.attraction_type, fn_input.db_env)
    /\ UNCHANGED <<fn_input, chatVars, timeoutVars, singletonVars, hybridVars,
                 requestVars, serviceVars>>

SearchMainAttractions ==
    /\ fn_output = Pending
    /\ fn_input.fn = "search_main_attractions"
    /\ fn_output' = search_main_attractions(fn_input.table, fn_input.limit,
                                            fn_input.db_env)
    /\ UNCHANGED <<fn_input, chatVars, timeoutVars, singletonVars, hybridVars,
                 requestVars, serviceVars>>

SearchPlacesNearLocation ==
    /\ fn_output = Pending
    /\ fn_input.fn = "search_places_near_location"
    /\ fn_output' \in search_places_near_location(fn_input.table,
                          fn_input.radius, fn_input.limit, fn_input.db_env)
    /\ UNCHANGED <<fn_input, chatVars, timeoutVars, singletonVars, hybridVars,
                 requestVars, serviceVars>>

NextSearch ==
    \/ SearchPlaces
    \/ SearchMainAttractions
    \/ SearchPlacesNearLocation

SpecSearch == InitSearch /\ [][NextSearch]_vars

\* C11: every place search_main_attractions returns has the stored
\* attraction_type "main_attraction", and every place search_places returns
\* for a given attraction_type T has the stored attraction_type T.
C11_ResultsHaveRequestedType ==
    fn_output.status = "returned" =>
        /\ fn_input.fn = "search_main_attractions" =>
              \A i \in DOMAIN fn_output.value :
                  fn_output.value[i].attraction_type = "main_attraction"
        /\ (fn_input.fn = "search_places"
              /\ fn_input.attraction_type # NoType) =>
              \A i \in DOMAIN fn_output.value :
                  fn_output.value[i].attraction_type
                      = fn_input.attraction_type

\* C12: search_places never raises: whatever fails while the database is
\* initialised or queried, the call returns the empty list.
C12_SearchPlacesNeverRaises ==
    (fn_input.fn = "search_places" /\ fn_output # Pending) =>
        /\ fn_output.status = "returned"
        /\ fn_input.db_env # "ok" => fn_output.value = <<>>

\* C13: every result of search_places_near_location has coordinates and a
\* numeric _distance_km that is its distance to the centre (to the
\* hundredth of a kilometre) and at most radius_km; the results are in order of non-decreasing distance and at
\* most limit.
C13_NearResultsWithinRadius ==
    (fn_input.fn = "search_places_near_location"
       /\ fn_output.status = "returned") =>
        LET results == fn_output.value
        IN  /\ Len(results) <= fn_input.limit
            /\ \A i \in DOMAIN results :
                  /\ results[i].has_coordinates
                  /\ results[i].distance_km.numeric
                  /\ results[i].distance_km.metres
                        >= fn_input.table[results[i].id].distance - 5
                  /\ results[i].distance_km.metres
                        <= fn_input.table[results[i].id].distance + 5
                  /\ results[i].distance_km.metres <= fn_input.radius
            /\ \A i, j \in DOMAIN results :
                  i < j => results[i].distance_km.metres
                             <= results[j].distance_km.metres

(***************************************************************************)
(* TravelChatbot._classify_intent on a query and the loaded travel data.   *)
(* A text is the sequence of its characters; the queries and names of the  *)
(* model are over Latin letters, the space and the hyphen, so the Thai     *)
(* indicators of the code cannot occur in them.                            *)
(***************************************************************************)

Digits == {"0", "1", "2", "3", "4", "5", "6", "7", "8", "9"}

\* The characters re.sub(r"[^0-9a-zA-Z\u0E00-\u0E7F]+", "", ...) keeps.
IsNameChar(c) ==
    \/ c \in Digits
    \/ \E i \in DOMAIN LowerCase : LowerCase[i] = c
    \/ \E i \in DOMAIN UpperCase : UpperCase[i] = c

\* _normalize_name_token: stripped, lowered, everything but letters and
\* digits removed.
normalize_name_token(text) ==
    IF text = <<>> THEN <<>>
    ELSE SelectSeq(lower(strip(text)), IsNameChar)

\* specific_indicators (the English ones)
specific_indicators ==
    {<<"w", "h", "e", "r", "e", " ", "i", "s">>,
     <<"a", "b", "o", "u", "t">>,
     <<"t", "e", "l", "l", " ", "m", "e", " ", "a", "b", "o", "u", "t">>,
     <<"w", "h", "a", "t", " ", "i", "s">>,
     <<"h", "o", "w", " ", "t", "o", " ", "g", "e", "t">>}

\* general_indicators (the English ones)
general_indicators ==
    {<<"r", "e", "c", "o", "m", "m", "e", "n", "d">>,
     <<"s", "u", "g", "g", "e", "s", "t", "i", "o", "n">>,
     <<"w", "h", "a", "t">>,
     <<"s", "o", "m", "e">>,
     <<"w", "h", "e", "r", "e", " ", "s", "h", "o", "u", "l", "d">>,
     <<"w", "a", "n", "t", " ", "t", "o", " ", "v", "i", "s", "i", "t">>,
     <<"f", "i", "n", "d">>,
     <<"l", "o", "o", "k", "i", "n", "g", " ", "f", "o", "r">>,
     <<"a", "r", "e", " ", "t", "h", "e", "r", "e">>,
     <<"a", "n", "y">>,
     <<"l", "i", "s", "t">>}

\* self.travel_data[:50]
PLACE_SCAN_LIMIT == 50

\* _auto_detect_keywords(query, limit=3) as _classify_intent calls it
AUTO_KEYWORD_LIMIT == 3

\* if name and len(str(name)) >= 3: normalized_name and normalized_name in
\* _normalize_name_token(normalized)
name_matches(name, normalized) ==
    /\ Len(name) >= 3
    /\ normalize_name_token(name) # <<>>
    /\ Contains(normalize_name_token(normalized), normalize_name_token(name))

\* Variant: a general indicator does not hold a specific one back.
intent_type_of_IgnoringGeneral(place_match, has_specific, has_general) ==
    IF place_match \/ has_specific THEN "specific" ELSE "general"

\* if specific_place_match or (has_specific_indicator and not
\* has_general_indicator): "specific" else "general"
intent_type_of(place_match, has_specific, has_general) ==
    IF place_match \/ (has_specific /\ ~has_general)
    THEN "specific" ELSE "general"

\* consider(value) of _auto_detect_keywords for a name without "(" or "/":
\* its one variant is the stripped name.
RECURSIVE auto_detect_from(_, _, _, _, _)
auto_detect_from(entries, query, detected, seen_tokens, limit) ==
    IF entries = <<>> \/ Len(detected) >= limit THEN detected
    ELSE LET variant == strip(Head(entries).name)
             normalized_variant == normalize_name_token(variant)
             found ==
               /\ variant # <<>>
               /\ normalized_variant # <<>>
               /\ normalized_variant \notin seen_tokens
               /\ \/ Contains(normalize_name_token(query), normalized_variant)
                  \/ Contains(lower(query), lower(variant))
         IN  IF found
             THEN auto_detect_from(Tail(entries), query,
                      Append(detected, variant),
                      seen_tokens \cup {normalized_variant}, limit)
             ELSE auto_detect_from(Tail(entries), query, detected,
                                   seen_tokens, limit)

\* _auto_detect_keywords(query, limit)
auto_detect_keywords(query, travel_data, limit) ==
    IF query = <<>> \/ travel_data = <<>> THEN <<>>
    ELSE auto_detect_from(travel_data, query, <<>>, {}, limit)

\* _classify_intent(query)
classify_intent(query, travel_data) ==
    LET clean_question == strip(query)
        normalized == lower(clean_question)
        scanned == SubSeq(travel_data, 1, Min(PLACE_SCAN_LIMIT,
                                              Len(travel_data)))
        matching == {i \in DOMAIN scanned :
                        name_matches(scanned[i].name, normalized)}
        specific_place_match == matching # {}
        first == CHOOSE i \in matching : \A j \in matching : i <= j
        has_specific_indicator ==
            \E ind \in specific_indicators : Contains(normalized, ind)
        has_general_indicator ==
            \E ind \in general_indicators : Contains(normalized, ind)
    IN  [intent_type |-> intent_type_of(specific_place_match,
                             has_specific_indicator, has_general_indicator),
         keywords |-> IF specific_place_match THEN <<scanned[first].name>>
                      ELSE auto_detect_keywords(query, travel_data,
                                                AUTO_KEYWORD_LIMIT),
         clean_question |-> clean_question]

\* The words a query of the model is made of; the empty word gives queries
\* with leading, trailing and doubled spaces.
QueryWords ==
    {<<>>,
     <<"a", "b", "o", "u", "t">>,
     <<"w", "h", "a", "t", " ", "i", "s">>,
     <<"W", "a", "t">>,
     <<"k", "o">>}

MaxWords == 3

RECURSIVE JoinWords(_)
JoinWords(words) ==
    IF words = <<>> THEN <<>>
    ELSE IF Len(words) = 1 THEN words[1]
    ELSE words[1] \o <<" ">> \o JoinWords(Tail(words))

IntentQueries ==
    {JoinWords(w) : w \in UNION {[1..n -> QueryWords] : n \in 0..MaxWords}}

\* Place names: of three letters, of two, of three characters but two
\* letters, and of no letter at all.
PlaceNames ==
    {<<"W", "a", "t">>,
     <<"K", "o">>,
     <<"K", "-", "o">>,
     <<"-", "-", "-">>}

FillerName == <<"z", "z", "z">>

MaxEntries == 2

\* travel_data: short lists of named places, and lists where the name sits
\* at position 50 and at position 51.
Fillers(n) == [i \in 1..n |-> [name |-> FillerName]]

TravelData ==
    {[i \in DOMAIN f |-> [name |-> f[i]]] :
        f \in UNION {[1..n -> PlaceNames] : n \in 0..MaxEntries}}
    \cup {Fillers(PLACE_SCAN_LIMIT - 1) \o <<[name |-> <<"W", "a", "t">>]>>,
          Fillers(PLACE_SCAN_LIMIT) \o <<[name |-> <<"W", "a", "t">>]>>}

ClassifyIntentInputs ==
    [fn : {"classify_intent"}, query : IntentQueries,
     travel_data : TravelData]

InitIntent ==
    /\ OthersIdle
    /\ fn_input \in ClassifyIntentInputs
    /\ fn_output = Pending

ClassifyIntent ==
    /\ fn_output = Pending
    /\ fn_input.fn = "classify_intent"
    /\ fn_output' = Returned(classify_intent(fn_input.query,
                                             fn_input.travel_data))
    /\ UNCHANGED <<fn_input, chatVars, timeoutVars, singletonVars, hybridVars,
                 requestVars, serviceVars>>

NextIntent == ClassifyIntent

SpecIntent == InitIntent /\ [][NextIntent]_vars

\* The travel data _classify_intent looks at.
FirstEntries == 1..Min(PLACE_SCAN_LIMIT, Len(fn_input.travel_data))

NormalizedQuery == normalize_name_token(lower(strip(fn_input.query)))

HasSpecific ==
    \E ind \in specific_indicators :
        Contains(lower(strip(fn_input.query)), ind)

HasGeneral ==
    \E ind \in general_indicators :
        Contains(lower(strip(fn_input.query)), ind)

\* A name among the first 50 entries occurs in the normalized query.
NameOccurs ==
    \E i \in FirstEntries :
        LET name == normalize_name_token(fn_input.travel_data[i].name)
        IN  name # <<>> /\ Contains(NormalizedQuery, name)

\* The same, for names of at least three characters.
LongNameOccurs ==
    \E i \in FirstEntries :
        LET name == normalize_name_token(fn_input.travel_data[i].name)
        IN  /\ Len(fn_input.travel_data[i].name) >= 3
            /\ name # <<>>
            /\ Contains(NormalizedQuery, name)

IntentReturned ==
    fn_input.fn = "classify_intent" /\ fn_output.status = "returned"

\* C14 as stated: _classify_intent returns "specific" exactly when a known
\* place name among the first 50 entries occurs in the normalized query, or
\* a specific indicator occurs and no general indicator does, and "general"
\* otherwise; the empty query gives an empty keyword list.
C14_SpecificIffNameOrIndicator ==
    IntentReturned =>
        /\ fn_output.value.intent_type \in {"specific", "general"}
        /\ fn_output.value.intent_type = "specific"
              <=> (NameOccurs \/ (HasSpecific /\ ~HasGeneral))
        /\ fn_input.query = <<>> => fn_output.value.keywords = <<>>

\* C14 amended: as above, for place names of at least three characters
\* (counted before normalisation) whose normalised form is not empty.
C14_SpecificIffLongNameOrIndicator ==
    IntentReturned =>
        /\ fn_output.value.intent_type \in {"specific", "general"}
        /\ fn_output.value.intent_type = "specific"
              <=> (LongNameOccurs \/ (HasSpecific /\ ~HasGeneral))
        /\ (HasSpecific /\ HasGeneral /\ ~LongNameOccurs) =>
              fn_output.value.intent_type = "general"
        /\ fn_input.query = <<>> =>
              /\ fn_output.value.intent_type = "general"
              /\ fn_output.value.keywords = <<>>

\* C14 witness: a query with both kinds of indicator and no place name was
\* classified "general" although a two-letter place name occurs in it.
C14_Witness ==
    /\ IntentReturned
    /\ HasSpecific /\ HasGeneral
    /\ NameOccurs /\ ~LongNameOccurs
    /\ fn_output.value.intent_type = "general"

(***************************************************************************)
(* TravelChatbot._detect_category_filter and the search _match_travel_data *)
(* starts with.  A Thai character is written by its Unicode name.          *)
(***************************************************************************)

\* category_mappings, in the order of the dict
category_mappings ==
    <<[category |-> <<"wo_waen", "mai_han-akat", "do_dek">>,
       keywords |-> <<<<"wo_waen", "mai_han-akat", "do_dek">>,
                      <<"t", "e", "m", "p", "l", "e">>,
                      <<"wo_waen", "mai_han-akat", "do_dek", "wo_waen", "sara_aa">>,
                      <<"so_sala", "sara_aa", "so_sua", "no_nu", "so_sua", "tho_thung", "sara_aa", "no_nu">>,
                      <<"so_sua", "tho_thung", "sara_aa", "no_nu", "tho_thahan", "sara_ii", "mai_ek", "so_sala", "mai_han-akat", "ko_kai", "do_dek", "sara_i", "thanthakhat", "so_sua", "sara_i", "tho_thahan", "tho_thong", "sara_i", "thanthakhat">>,
                      <<"wo_waen", "mai_han-akat", "do_dek", "sara_o", "bo_baimai", "ro_rua", "sara_aa", "no_nen">>>>],
      [category |-> <<"ro_rua", "mai_tho", "sara_aa", "no_nu", "o_ang", "sara_aa", "ho_hip", "sara_aa", "ro_rua">>,
       keywords |-> <<<<"ro_rua", "mai_tho", "sara_aa", "no_nu", "o_ang", "sara_aa", "ho_hip", "sara_aa", "ro_rua">>,
                      <<"r", "e", "s", "t", "a", "u", "r", "a", "n", "t">>,
                      <<"pho_samphao", "mai_han-akat", "to_tao", "to_tao", "sara_aa", "kho_khwai", "sara_aa", "ro_rua">>,
                      <<"o_ang", "sara_aa", "ho_hip", "sara_aa", "ro_rua">>,
                      <<"ro_rua", "mai_tho", "sara_aa", "no_nu">>,
                      <<"ko_kai", "sara_i", "no_nu">>>>],
      [category |-> <<"kho_khwai", "sara_aa", "sara_e", "fo_fan", "mai_ek">>,
       keywords |-> <<<<"kho_khwai", "sara_aa", "sara_e", "fo_fan", "mai_ek">>,
                      <<"c", "a", "f", "e">>,
                      <<"c", "o", "f", "f", "e", "e">>,
                      <<"ko_kai", "sara_aa", "sara_ae", "fo_fan">>,
                      <<"ro_rua", "mai_tho", "sara_aa", "no_nu", "ko_kai", "sara_aa", "sara_ae", "fo_fan">>,
                      <<"kho_khwai", "o_ang", "fo_fan", "fo_fan", "sara_ii", "mai_ek">>>>],
      [category |-> <<"so_sua", "tho_thung", "sara_aa", "no_nu", "tho_thahan", "sara_ii", "mai_ek", "tho_thahan", "mai_ek", "o_ang", "ngo_ngu", "sara_e", "tho_thahan", "sara_ii", "mai_ek", "yo_yak", "wo_waen">>,
       keywords |-> <<<<"so_sua", "tho_thung", "sara_aa", "no_nu", "tho_thahan", "sara_ii", "mai_ek", "tho_thahan", "mai_ek", "o_ang", "ngo_ngu", "sara_e", "tho_thahan", "sara_ii", "mai_ek", "yo_yak", "wo_waen">>,
                      <<"t", "o", "u", "r", "i", "s", "t", " ", "a", "t", "t", "r", "a", "c", "t", "i", "o", "n">>,
                      <<"tho_thahan", "sara_ii", "mai_ek", "sara_e", "tho_thahan", "sara_ii", "mai_ek", "yo_yak", "wo_waen">>,
                      <<"a", "t", "t", "r", "a", "c", "t", "i", "o", "n">>,
                      <<"sara_ae", "ho_hip", "lo_ling", "mai_ek", "ngo_ngu", "tho_thahan", "mai_ek", "o_ang", "ngo_ngu", "sara_e", "tho_thahan", "sara_ii", "mai_ek", "yo_yak", "wo_waen">>>>],
      [category |-> <<"sara_o", "ro_rua", "ngo_ngu", "sara_ae", "ro_rua", "mo_ma">>,
       keywords |-> <<<<"sara_o", "ro_rua", "ngo_ngu", "sara_ae", "ro_rua", "mo_ma">>,
                      <<"h", "o", "t", "e", "l">>,
                      <<"sara_o", "ho_nokhuk", "sara_e", "tho_thahan", "lo_ling">>>>],
      [category |-> <<"ro_rua", "sara_ii", "so_sua", "o_ang", "ro_rua", "thanthakhat", "tho_thahan">>,
       keywords |-> <<<<"ro_rua", "sara_ii", "so_sua", "o_ang", "ro_rua", "thanthakhat", "tho_thahan">>,
                      <<"r", "e", "s", "o", "r", "t">>>>],
      [category |-> <<"tho_thahan", "sara_ii", "mai_ek", "pho_phan", "mai_han-akat", "ko_kai">>,
       keywords |-> <<<<"tho_thahan", "sara_ii", "mai_ek", "pho_phan", "mai_han-akat", "ko_kai">>,
                      <<"a", "c", "c", "o", "m", "m", "o", "d", "a", "t", "i", "o", "n">>,
                      <<"tho_thahan", "sara_ii", "mai_ek", "no_nu", "o_ang", "no_nu">>,
                      <<"tho_thahan", "sara_ii", "mai_ek", "o_ang", "yo_yak", "sara_uu", "mai_ek">>>>],
      [category |-> <<"to_tao", "lo_ling", "sara_aa", "do_dek", "no_nu", "mai_tho", "sara_am">>,
       keywords |-> <<<<"to_tao", "lo_ling", "sara_aa", "do_dek", "no_nu", "mai_tho", "sara_am">>,
                      <<"f", "l", "o", "a", "t", "i", "n", "g", " ", "m", "a", "r", "k", "e", "t">>>>],
      [category |-> <<"to_tao", "lo_ling", "sara_aa", "do_dek">>,
       keywords |-> <<<<"to_tao", "lo_ling", "sara_aa", "do_dek">>,
                      <<"m", "a", "r", "k", "e", "t">>,
                      <<"to_tao", "lo_ling", "sara_aa", "do_dek", "so_sua", "do_dek">>>>],
      [category |-> <<"ro_rua", "mai_tho", "sara_aa", "no_nu", "kho_khwai", "mai_tho", "sara_aa">>,
       keywords |-> <<<<"ro_rua", "mai_tho", "sara_aa", "no_nu", "kho_khwai", "mai_tho", "sara_aa">>,
                      <<"s", "h", "o", "p">>,
                      <<"ro_rua", "mai_tho", "sara_aa", "no_nu">>>>]>>

\* main_attraction_indicators + english_indicators
main_attraction_indicators ==
    {<<"so_sua", "tho_thung", "sara_aa", "no_nu", "tho_thahan", "sara_ii", "mai_ek", "tho_thahan", "mai_ek", "o_ang", "ngo_ngu", "sara_e", "tho_thahan", "sara_ii", "mai_ek", "yo_yak", "wo_waen">>,
     <<"tho_thahan", "sara_ii", "mai_ek", "sara_e", "tho_thahan", "sara_ii", "mai_ek", "yo_yak", "wo_waen", "ho_hip", "lo_ling", "mai_han-akat", "ko_kai">>,
     <<"tho_thahan", "sara_ii", "mai_ek", "sara_e", "tho_thahan", "sara_ii", "mai_ek", "yo_yak", "wo_waen", "so_sua", "sara_am", "kho_khwai", "mai_han-akat", "yo_ying">>,
     <<"sara_ae", "ho_hip", "lo_ling", "mai_ek", "ngo_ngu", "tho_thahan", "mai_ek", "o_ang", "ngo_ngu", "sara_e", "tho_thahan", "sara_ii", "mai_ek", "yo_yak", "wo_waen">>,
     <<"cho_chan", "sara_u", "do_dek", "tho_thahan", "mai_ek", "o_ang", "ngo_ngu", "sara_e", "tho_thahan", "sara_ii", "mai_ek", "yo_yak", "wo_waen">>,
     <<"o_ang", "mai_han-akat", "to_tao", "ro_rua", "sara_aa", "kho_khwai", "sara_a", "sara_ae", "no_nu", "no_nu", "so_sua", "sara_uu", "ngo_ngu">>,
     <<"mo_ma", "sara_ii", "cho_chang", "sara_uee", "mai_ek", "o_ang", "sara_e", "so_sua", "sara_ii", "yo_yak", "ngo_ngu">>,
     <<"do_dek", "mai_han-akat", "ngo_ngu", "tho_thahan", "sara_ii", "mai_ek", "so_sua", "sara_u", "do_dek">>,
     <<"ho_hip", "lo_ling", "mai_han-akat", "ko_kai">>,
     <<"m", "a", "i", "n", " ", "a", "t", "t", "r", "a", "c", "t", "i", "o", "n", "s">>,
     <<"p", "r", "i", "m", "a", "r", "y", " ", "a", "t", "t", "r", "a", "c", "t", "i", "o", "n", "s">>,
     <<"m", "a", "j", "o", "r", " ", "a", "t", "t", "r", "a", "c", "t", "i", "o", "n", "s">>,
     <<"t", "o", "p", " ", "a", "t", "t", "r", "a", "c", "t", "i", "o", "n", "s">>,
     <<"b", "e", "s", "t", " ", "a", "t", "t", "r", "a", "c", "t", "i", "o", "n", "s">>,
     <<"f", "a", "m", "o", "u", "s", " ", "p", "l", "a", "c", "e", "s">>,
     <<"m", "u", "s", "t", " ", "s", "e", "e">>,
     <<"m", "u", "s", "t", " ", "v", "i", "s", "i", "t">>,
     <<"l", "a", "n", "d", "m", "a", "r", "k">>}

\* The detector found no category (None).
NoCategory == <<>>

\* for keyword in keywords: if keyword in normalized_query: return
\* thai_keyword
RECURSIVE first_category(_, _)
first_category(mappings, normalized_query) ==
    IF mappings = <<>> THEN NoCategory
    ELSE IF \E k \in DOMAIN Head(mappings).keywords :
                Contains(normalized_query, Head(mappings).keywords[k])
         THEN Head(mappings).category
         ELSE first_category(Tail(mappings), normalized_query)

\* _detect_category_filter(query)
detect_category_filter(query) == first_category(category_mappings, lower(query))

\* _is_main_attractions_query(query)
is_main_attractions_query(query) ==
    \E indicator \in main_attraction_indicators :
        Contains(lower(query), indicator)

\* The initial database search of _match_travel_data: main attractions,
\* else the detected category, else the hybrid search.
initial_search(query) ==
    LET requested_category == detect_category_filter(query)
    IN  IF is_main_attractions_query(query)
        THEN [fn |-> "search_main_attractions", argument |-> query]
        ELSE IF requested_category # NoCategory
        THEN [fn |-> "get_attractions_by_type",
              argument |-> requested_category]
        ELSE [fn |-> "search_places_hybrid", argument |-> query]

\* Words of the category queries: "recommend", "coffee shop", "cafe" (all
\* three in Thai), "coffee", "floating market", "market" and "main" (in
\* Thai).
Recommend == <<"sara_ae", "no_nu", "sara_a", "no_nu", "sara_am">>

CoffeeShop == <<"ro_rua", "mai_tho", "sara_aa", "no_nu", "ko_kai", "sara_aa", "sara_ae", "fo_fan">>

Cafe == <<"kho_khwai", "sara_aa", "sara_e", "fo_fan", "mai_ek">>

Coffee == <<"c", "o", "f", "f", "e", "e">>

FloatingMarket == <<"to_tao", "lo_ling", "sara_aa", "do_dek", "no_nu", "mai_tho", "sara_am">>

Market == <<"to_tao", "lo_ling", "sara_aa", "do_dek">>

Main == <<"ho_hip", "lo_ling", "mai_han-akat", "ko_kai">>

CategoryWords ==
    {Recommend, CoffeeShop, Cafe, Coffee, FloatingMarket, Market, Main}

RECURSIVE Concat(_)
Concat(words) ==
    IF words = <<>> THEN <<>> ELSE Head(words) \o Concat(Tail(words))

CategoryQueries ==
    {Concat(w) : w \in UNION {[1..n -> CategoryWords] : n \in 0..MaxWords}}

\* Categories stored in the places table.
CAT_CAFE == <<"kho_khwai", "sara_aa", "sara_e", "fo_fan", "mai_ek">>

MatchTravelDataInputs == [fn : {"match_travel_data"}, query : CategoryQueries]

InitCategory ==
    /\ OthersIdle
    /\ fn_input \in MatchTravelDataInputs
    /\ fn_output = Pending

MatchTravelDataSearch ==
    /\ fn_output = Pending
    /\ fn_input.fn = "match_travel_data"
    /\ fn_output' = Returned(
           [requested_category |-> detect_category_filter(fn_input.query),
            search |-> initial_search(fn_input.query)])
    /\ UNCHANGED <<fn_input, chatVars, timeoutVars, singletonVars, hybridVars,
                 requestVars, serviceVars>>

NextCategory == MatchTravelDataSearch

SpecCategory == InitCategory /\ [][NextCategory]_vars

\* C15: for the query "recommend coffee shop" (in Thai) the category
\* detector yields the cafe category and retrieval calls
\* get_attractions_by_type with it.
C15_CoffeeShopQueryIsCafe ==
    (fn_input.fn = "match_travel_data"
       /\ fn_input.query = Recommend \o CoffeeShop
       /\ fn_output.status = "returned") =>
        /\ fn_output.value.requested_category = CAT_CAFE
        /\ fn_output.value.search =
              [fn |-> "get_attractions_by_type", argument |-> CAT_CAFE]

(***************************************************************************)
(* TravelChatbot._trim_structured_results on a list of entries.            *)
(***************************************************************************)

\* re.sub(r"[^0-9a-zA-Z\u0E00-\u0E7F]+", "-", ...): every run of other
\* characters becomes one hyphen.
RECURSIVE SkipOthers(_)
SkipOthers(s) ==
    IF s = <<>> THEN <<>>
    ELSE IF IsNameChar(Head(s)) THEN s ELSE SkipOthers(Tail(s))

RECURSIVE HyphenateRuns(_)
HyphenateRuns(s) ==
    IF s = <<>> THEN <<>>
    ELSE IF IsNameChar(Head(s))
         THEN <<Head(s)>> \o HyphenateRuns(Tail(s))
         ELSE <<"-">> \o HyphenateRuns(SkipOthers(s))

\* cleaned.strip("-")
RECURSIVE StripHyphens(_)
StripHyphens(s) ==
    IF s = <<>> THEN <<>>
    ELSE IF Head(s) = "-" THEN StripHyphens(Tail(s))
    ELSE IF s[Len(s)] = "-" THEN StripHyphens(SubSeq(s, 1, Len(s) - 1))
    ELSE s

\* hashlib.sha1(...).hexdigest()[:10], taken as one-to-one
sha1(text) == <<"sha1:">> \o text

\* _slugify_identifier(text)
slugify_identifier(text) ==
    IF text = <<>> THEN sha1(<<"d", "e", "f", "a", "u", "l", "t">>)
    ELSE LET cleaned == StripHyphens(HyphenateRuns(lower(strip(text))))
         IN  IF cleaned # <<>> THEN cleaned ELSE sha1(text)

\* ident = entry.get("id") or self._entry_identifier(entry); an entry
\* without id has the empty id here.
entry_identifier(entry) ==
    IF entry.id # <<>> THEN entry.id ELSE slugify_identifier(entry.name)

\* _entry_identifier stores the identifier it made: entry["id"] = ident
with_identifier(entry) == [entry EXCEPT !.id = entry_identifier(entry)]

\* limit is None
NoLimit == -1

DEFAULT_DISPLAY_LIMIT == 6

\* Variant: the ceiling taken as it is configured.
max_count_NoFloor(limit, query_type, display_limit) ==
    IF query_type = "specific"
    THEN IF limit # NoLimit THEN Min(limit, 3) ELSE 3
    ELSE IF limit # NoLimit THEN limit
    ELSE IF display_limit # 0 THEN display_limit ELSE 6

\* max_count: min(limit, 3) or 3 for "specific"; else max(base_limit, 4)
\* with base_limit = limit, or self.display_limit or 6.
max_count(limit, query_type, display_limit) ==
    IF query_type = "specific"
    THEN IF limit # NoLimit THEN Min(limit, 3) ELSE 3
    ELSE LET base_limit ==
               IF limit # NoLimit THEN limit
               ELSE IF display_limit # 0 THEN display_limit ELSE 6
         IN  Max(base_limit, 4)

\* for entry in entries: skip a seen identifier, append, stop at max_count
RECURSIVE trim_loop(_, _, _, _)
trim_loop(entries, trimmed, seen, maxCount) ==
    IF entries = <<>> THEN trimmed
    ELSE LET ident == entry_identifier(Head(entries))
         IN  IF ident \in seen
             THEN trim_loop(Tail(entries), trimmed, seen, maxCount)
             ELSE IF Len(trimmed) + 1 >= maxCount
             THEN Append(trimmed, with_identifier(Head(entries)))
             ELSE trim_loop(Tail(entries),
                      Append(trimmed, with_identifier(Head(entries))),
                      seen \cup {ident}, maxCount)

\* _trim_structured_results(entries, limit, query_type)
trim_structured_results(entries, limit, query_type, display_limit) ==
    IF entries = <<>> THEN <<>>
    ELSE trim_loop(entries, <<>>, {},
                   max_count(limit, query_type, display_limit))

\* Entries: two with an id, two without whose names give the same slug.
TrimEntries ==
    {[id |-> <<"1">>, name |-> <<"W", "a", "t">>],
     [id |-> <<"2">>, name |-> <<"W", "a", "t">>],
     [id |-> <<>>, name |-> <<"W", "a", "t", " ", "A">>],
     [id |-> <<>>, name |-> <<"w", "a", "t", "-", "a">>]}

MaxTrimLen == 4

IdChars == <<"1", "2", "3", "4", "5", "6", "7", "8">>

\* n entries with n ids
DistinctEntries(n) ==
    [i \in 1..n |-> [id |-> <<IdChars[i]>>, name |-> <<"W", "a", "t">>]]

\* Short lists of every shape, and lists longer than any cap, without and
\* with repeated entries.
TrimLists ==
    UNION {[1..n -> TrimEntries] : n \in 0..MaxTrimLen}
    \cup {DistinctEntries(n) : n \in 1..Len(IdChars)}
    \cup {DistinctEntries(n) \o DistinctEntries(n) : n \in 1..Len(IdChars)}
    \cup {DistinctEntries(2) \o DistinctEntries(n) : n \in 1..Len(IdChars)}

TrimLimits == {NoLimit, 0, 2, 5}

DisplayLimits == {0, 2, 5, DEFAULT_DISPLAY_LIMIT}

TrimInputs ==
    [fn : {"trim_structured_results"},
     entries : TrimLists,
     limit : TrimLimits,
     query_type : {"specific", "suggestions"},
     display_limit : DisplayLimits]

InitTrim ==
    /\ OthersIdle
    /\ fn_input \in TrimInputs
    /\ fn_output = Pending

TrimStructuredResults ==
    /\ fn_output = Pending
    /\ fn_input.fn = "trim_structured_results"
    /\ fn_output' = Returned(trim_structured_results(fn_input.entries,
                        fn_input.limit, fn_input.query_type,
                        fn_input.display_limit))
    /\ UNCHANGED <<fn_input, chatVars, timeoutVars, singletonVars, hybridVars,
                 requestVars, serviceVars>>

NextTrim == TrimStructuredResults

SpecTrim == InitTrim /\ [][NextTrim]_vars

TrimReturned ==
    fn_input.fn = "trim_structured_results" /\ fn_output.status = "returned"

\* The positions of the input that hold the first entry of an identifier.
FirstOccurrences ==
    {i \in DOMAIN fn_input.entries :
        \A j \in 1..(i - 1) :
            entry_identifier(fn_input.entries[j])
                # entry_identifier(fn_input.entries[i])}

\* The result is made of input entries with distinct identifiers, in the
\* order of the input.
DistinctInInputOrder ==
    /\ \A i, j \in DOMAIN fn_output.value :
          i # j => fn_output.value[i].id # fn_output.value[j].id
    /\ \E at \in [DOMAIN fn_output.value -> DOMAIN fn_input.entries] :
          /\ \A i, j \in DOMAIN at : i < j => at[i] < at[j]
          /\ \A i \in DOMAIN at :
                /\ fn_output.value[i].name = fn_input.entries[at[i]].name
                /\ fn_output.value[i].id
                      = entry_identifier(fn_input.entries[at[i]])

\* The display ceiling in force: the configured one, 6 by default.
Ceiling ==
    IF fn_input.display_limit # 0 THEN fn_input.display_limit
    ELSE DEFAULT_DISPLAY_LIMIT

\* C16 as stated: distinct identifiers in input order; at most 3 entries
\* for "specific"; for suggestion queries at least 4 and at most the
\* configured display ceiling.
C16_TrimBetweenFourAndCeiling ==
    (TrimReturned /\ fn_input.limit = NoLimit) =>
        /\ DistinctInInputOrder
        /\ fn_input.query_type = "specific" => Len(fn_output.value) <= 3
        /\ fn_input.query_type # "specific" =>
              /\ Len(fn_output.value) >= 4
              /\ Len(fn_output.value) <= Ceiling

\* C16 amended: distinct identifiers in input order; at most 3 entries for
\* "specific"; for suggestion queries called without limit, as many
\* entries as the input has identifiers, up to the larger of the display
\* ceiling and 4.
C16_TrimUpToCeilingOrFour ==
    TrimReturned =>
        /\ DistinctInInputOrder
        /\ fn_input.query_type = "specific" => Len(fn_output.value) <= 3
        /\ (fn_input.query_type # "specific" /\ fn_input.limit = NoLimit) =>
              Len(fn_output.value)
                  = Min(Cardinality(FirstOccurrences), Max(Ceiling, 4))

\* C16 witness: a suggestion query with a ceiling of 2 and a list that
\* repeats entries was trimmed to 4 entries, more than the ceiling.
C16_Witness ==
    /\ TrimReturned
    /\ fn_input.query_type = "suggestions"
    /\ fn_input.limit = NoLimit
    /\ fn_input.display_limit = 2
    /\ Cardinality(FirstOccurrences) < Len(fn_input.entries)
    /\ Cardinality(FirstOccurrences) > 4
    /\ Len(fn_output.value) = 4

(***************************************************************************)
(* TravelChatbot._extract_location_reference: the spatial-cue test and the *)
(* model call that splits a query into target and reference place.         *)
(***************************************************************************)

\* location_indicators
location_indicators ==
    {<<"sara_ai_maimuan", "ko_kai", "lo_ling", "mai_tho">>,
     <<"sara_ai_maimalai", "ko_kai", "lo_ling", "mai_tho">>,
     <<"sara_ae", "tho_thung", "wo_waen">>,
     <<"ro_rua", "o_ang", "bo_baimai">>,
     <<"kho_khai", "mai_tho", "sara_aa", "ngo_ngu">>,
     <<"ho_hip", "no_nu", "mai_tho", "sara_aa">>,
     <<"ho_hip", "lo_ling", "mai_han-akat", "ngo_ngu">>,
     <<"to_tao", "sara_i", "do_dek">>,
     <<"sara_ai_maimuan", "ko_kai", "lo_ling">>,
     <<"sara_ai_maimalai", "ko_kai", "lo_ling">>,
     <<"n", "e", "a", "r">>,
     <<"a", "r", "o", "u", "n", "d">>,
     <<"b", "y">>,
     <<"n", "e", "x", "t", " ", "t", "o">>}

\* JSON null / Python None where a text is expected
NoText == <<"None">>

\* bool(value) of a text or None
Truthy(text) == text # NoText /\ text # <<>>

\* The default radius, 2 (a number is written by its digits)
DEFAULT_RADIUS_KM == <<"2">>

ExtractedRadius == <<"5">>

\* {"target": query, "reference": None, "radius_km": 2,
\*  "has_reference": False}
no_location_reference(query) ==
    [target |-> query, reference |-> NoText,
     radius_km |-> DEFAULT_RADIUS_KM, has_reference |-> FALSE]

\* chat.completions.create(...): raises (API error, timeout, no choice), or
\* gives a content
create_completion(reply) ==
    IF reply.kind = "raises" THEN Raised("APIError") ELSE Returned(reply)

\* start = content.find("{"); end = content.rfind("}") + 1; if start >= 0
\* and end > start: parsed = json.loads(content[start:end]); the result
\* dictionary is built from parsed.  No braces: nothing is returned here.
parse_extraction(reply, query) ==
    CASE reply.kind = "text" -> Returned(no_location_reference(query))
      [] reply.kind = "bad_json" -> Raised("JSONDecodeError")
      [] reply.kind = "json" ->
           Returned([target |-> Dget(reply.parsed, "target", query),
                     reference |-> Dget(reply.parsed, "reference", NoText),
                     radius_km |-> Dget(reply.parsed, "radius_km",
                                        DEFAULT_RADIUS_KM),
                     has_reference |->
                         Truthy(Dget(reply.parsed, "reference", NoText))])

\* Variant: the exception is passed on.
except_Exception_Reraised(result, default) == result

\* try: ... except Exception: (warn), then the statement after the try
except_Exception(result, default) ==
    IF result.status = "raised" THEN Returned(default) ELSE result

\* _extract_location_reference(query)
extract_location_reference(query, service, reply) ==
    LET has_indicator ==
            \E ind \in location_indicators : Contains(lower(query), ind)
        default == no_location_reference(query)
        completion == create_completion(reply)
    IN  IF ~has_indicator THEN Returned(default)
        ELSE IF service \in {"none", "no_client"} THEN Returned(default)
        ELSE except_Exception(
                 IF completion.status = "raised" THEN completion
                 ELSE parse_extraction(completion.value, query),
                 default)

\* What the model may answer: {"target": ..., "reference": ...,
\* "radius_km": ...} with any key missing, the reference null, empty or a
\* place name.
ExtractedTarget == <<"c", "a", "f", "e">>

ExtractedReference == <<"W", "a", "t">>

ParsedReplies ==
    {d \in UNION {[keys -> {ExtractedTarget, NoText, <<>>, ExtractedReference,
                             ExtractedRadius}]
                    : keys \in SUBSET {"target", "reference", "radius_km"}} :
        /\ "target" \in DOMAIN d => d["target"] = ExtractedTarget
        /\ "reference" \in DOMAIN d =>
              d["reference"] \in {NoText, <<>>, ExtractedReference}
        /\ "radius_km" \in DOMAIN d => d["radius_km"] = ExtractedRadius}

ModelReplies ==
    {[kind |-> "raises"], [kind |-> "text"], [kind |-> "bad_json"]}
    \cup [kind : {"json"}, parsed : ParsedReplies]

LocationWords ==
    {<<"c", "a", "f", "e">>,
     <<"N", "e", "a", "r">>,
     <<"W", "a", "t">>,
     <<"sara_ai_maimuan", "ko_kai", "lo_ling", "mai_tho">>}

LocationQueries ==
    {JoinWords(w) : w \in UNION {[1..n -> LocationWords] : n \in 0..MaxWords}}

ExtractInputs ==
    [fn : {"extract_location_reference"},
     query : LocationQueries,
     gpt_service : {"none", "no_client", "ready"},
     reply : ModelReplies]

InitExtract ==
    /\ OthersIdle
    /\ fn_input \in ExtractInputs
    /\ fn_output = Pending

ExtractLocationReference ==
    /\ fn_output = Pending
    /\ fn_input.fn = "extract_location_reference"
    /\ fn_output' = extract_location_reference(fn_input.query,
                        fn_input.gpt_service, fn_input.reply)
    /\ UNCHANGED <<fn_input, chatVars, timeoutVars, singletonVars, hybridVars,
                 requestVars, serviceVars>>

NextExtract == ExtractLocationReference

SpecExtract == InitExtract /\ [][NextExtract]_vars

HasSpatialCue ==
    \E ind \in location_indicators : Contains(lower(fn_input.query), ind)

\* C19: _extract_location_reference never raises; without a spatial cue,
\* without a model client, when the model call fails or when its output is
\* not parseable JSON, it returns has_reference = false, reference null
\* and the whole query as target.
C19_ExtractionDegrades ==
    (fn_input.fn = "extract_location_reference" /\ fn_output # Pending) =>
        /\ fn_output.status = "returned"
        /\ (\/ ~HasSpatialCue
            \/ fn_input.gpt_service # "ready"
            \/ fn_input.reply.kind \in {"raises", "text", "bad_json"}) =>
              /\ fn_output.value.has_reference = FALSE
              /\ fn_output.value.reference = NoText
              /\ fn_output.value.target = fn_input.query

\* C19 witness: a query with a spatial cue, a ready client and a model
\* output that json.loads rejects ended as an ordinary search.
C19_Witness ==
    /\ fn_input.fn = "extract_location_reference"
    /\ HasSpatialCue
    /\ fn_input.gpt_service = "ready"
    /\ fn_input.reply.kind = "bad_json"
    /\ fn_output.status = "returned"
    /\ fn_output.value.has_reference = FALSE

(***************************************************************************)
(* Retrieval inside TravelChatbot.get_response: the two analysis tasks,    *)
(* the location reference and its coordinates, the proximity search, the   *)
(* standard search, trimming and the external places search.  Requests     *)
(* follow one another; the LocationCache table and the geocoder's history  *)
(* outlive them.                                                           *)
(***************************************************************************)

\* future.result() returns once the task is done; a future that was not
\* submitted (analysis_future is None) is not waited for.
future_result_NoWait(task) == TRUE

future_result(task) == task # "running"

\* _resolve_location_coordinates(location_name): the places table first,
\* then Nominatim; the sources consulted are noted in order.
resolve_location_coordinates(location_name, places_lookup, geocoder) ==
    IF ~Truthy(location_name)
    THEN [coords |-> NoCoords, consulted |-> <<>>]
    ELSE IF places_lookup = "hit"
    THEN [coords |-> [source |-> "database"], consulted |-> <<"places">>]
    ELSE IF geocoder = "found"
    THEN [coords |-> [source |-> "nominatim"],
          consulted |-> <<"places", "nominatim">>]
    ELSE [coords |-> NoCoords, consulted |-> <<"places", "nominatim">>]

\* db.query(Place).filter(name ilike).first(): a place with coordinates,
\* none, or an exception (caught).
PlacesLookups == {"hit", "miss", "raises"}

\* requests.get(nominatim_url, ...): a result, none, or an exception
\* (caught).
GeocoderReplies == {"found", "empty", "raises"}

MaxGeocoderCalls == 3

\* What one resolution adds to the geocoder's history.
geocoder_called(resolved) ==
    \E i \in DOMAIN resolved.consulted : resolved.consulted[i] = "nominatim"

\* Rows of the places table as retrieval returns them.
db_entries(n) ==
    [i \in 1..n |-> [id |-> <<IdChars[i]>>, name |-> <<"W", "a", "t">>,
                     source |-> "database"]]

TripGuide ==
    [id |-> <<"g">>, name |-> <<"T", "r", "i", "p">>, source |-> "trip_guide"]

\* _merge_structured_data(base, extras): a dict by identifier, base first
merge_structured_data(base, extras) ==
    IF extras = <<>> THEN base
    ELSE LET replaced(entry) ==
               IF \E k \in DOMAIN extras :
                      entry_identifier(extras[k]) = entry_identifier(entry)
               THEN extras[CHOOSE k \in DOMAIN extras :
                       /\ entry_identifier(extras[k]) = entry_identifier(entry)
                       /\ \A m \in DOMAIN extras :
                             entry_identifier(extras[m])
                                 = entry_identifier(entry) => m <= k]
               ELSE entry
             isNew(entry) ==
               \A i \in DOMAIN base :
                   entry_identifier(base[i]) # entry_identifier(entry)
         IN  [i \in DOMAIN base |-> replaced(base[i])]
                 \o SelectSeq(extras, isNew)

GOOGLE_FALLBACK_LIMIT == 3

PROXIMITY_LIMIT == 5

\* _google_search_fallback(query, keywords, limit, ...): [] without the
\* googlemaps module or an API key, on a timeout and on any exception;
\* else the first limit results, each normalised with source
\* 'google_search'.
google_search_fallback(maps, found, limit) ==
    IF maps # "ok" THEN <<>>
    ELSE [i \in 1..Min(limit, found) |->
             [id |-> <<"gmaps_", IdChars[i]>>,
              name |-> <<"W", "a", "t">>,
              source |-> "google_search"]]

GoogleOutcomes == {"ok", "unavailable", "timeout", "raises"}

\* Variant: the external search is tried whenever retrieval is empty.
should_fallback_AnyQuery(matched, local) == matched = <<>>

\* if not matched_data and includes_local_term
should_fallback(matched, local) == matched = <<>> /\ local

\* User messages: blank, without and with a spatial cue.
RequestQueries ==
    {<<" ">>,
     <<"c", "a", "f", "e">>,
     <<"c", "a", "f", "e", " ", "N", "e", "a", "r", " ", "W", "a", "t">>}

\* What the model answers the extraction prompt with.
RequestReplies ==
    {[kind |-> "raises"],
     [kind |-> "json",
      parsed |-> [k \in {"target", "reference"} |->
                     IF k = "target" THEN ExtractedTarget
                     ELSE ExtractedReference]],
     [kind |-> "json",
      parsed |-> [k \in {"target", "reference"} |->
                     IF k = "target" THEN ExtractedTarget ELSE NoText]]}

\* How many rows a search finds.
FoundCounts == {0, 2, 7}

\* The searches one run of _match_travel_data makes: none on a query-cache
\* hit, else the hybrid search and, by the routing, the main-attraction or
\* the category search.
MatchSearches ==
    {{}, {"search_places_hybrid"}, {"search_main_attractions"},
     {"get_attractions_by_type"},
     {"search_places_hybrid", "search_main_attractions"},
     {"search_places_hybrid", "get_attractions_by_type"}}

StandardSearches ==
    {"search_places_hybrid", "get_attractions_by_type",
     "search_main_attractions"}

\* get_response is entered: intent is classified and the two analysis
\* tasks are submitted to the executor.
StartRequest ==
    /\ request_pc = "idle"
    /\ geocoder_calls + 2 <= MaxGeocoderCalls
    /\ \E q \in RequestQueries, l \in BOOLEAN :
          request' = [query |-> q, blank |-> strip(q) = <<>>, local |-> l]
    /\ analysis_task' = IF request'.blank THEN "none" ELSE "running"
    /\ matcher_task' = "running"
    /\ request_pc' = "await_analysis"
    /\ UNCHANGED <<matcher_signals, location_ref, coords, resolution,
                   location_aware_results, matched_data, result_type,
                   includes_local_term, searches, location_cache, geocoded,
                   geocoder_calls>>
    /\ UNCHANGED <<chatVars, timeoutVars, singletonVars, hybridVars,
                   functionVars, serviceVars>>

\* _interpret_query_keywords returns on its worker thread.
AnalysisFinishes ==
    /\ analysis_task = "running"
    /\ analysis_task' = "done"
    /\ UNCHANGED <<request_pc, request, matcher_task, matcher_signals,
                   location_ref, coords, resolution, location_aware_results,
                   matched_data, result_type, includes_local_term, searches,
                   location_cache, geocoded, geocoder_calls>>
    /\ UNCHANGED <<chatVars, timeoutVars, singletonVars, hybridVars,
                   functionVars, serviceVars>>

\* _matcher_analysis returns on its worker thread.
MatcherFinishes ==
    /\ matcher_task = "running"
    /\ matcher_task' = "done"
    /\ \E l \in BOOLEAN : matcher_signals' = [is_local |-> l]
    /\ UNCHANGED <<request_pc, request, analysis_task, location_ref, coords,
                   resolution, location_aware_results, matched_data,
                   result_type, includes_local_term, searches,
                   location_cache, geocoded, geocoder_calls>>
    /\ UNCHANGED <<chatVars, timeoutVars, singletonVars, hybridVars,
                   functionVars, serviceVars>>

\* analysis = analysis_future.result() if analysis_future else {...}
AwaitAnalysis ==
    /\ request_pc = "await_analysis"
    /\ future_result(analysis_task)
    /\ request_pc' = "await_matcher"
    /\ UNCHANGED <<request, analysis_task, matcher_task, matcher_signals,
                   location_ref, coords, resolution, location_aware_results,
                   matched_data, result_type, includes_local_term, searches,
                   location_cache, geocoded, geocoder_calls>>
    /\ UNCHANGED <<chatVars, timeoutVars, singletonVars, hybridVars,
                   functionVars, serviceVars>>

\* matcher_signals = matcher_future.result(), and the executor is left
AwaitMatcher ==
    /\ request_pc = "await_matcher"
    /\ future_result(matcher_task)
    /\ request_pc' = "extract"
    /\ UNCHANGED <<request, analysis_task, matcher_task, matcher_signals,
                   location_ref, coords, resolution, location_aware_results,
                   matched_data, result_type, includes_local_term, searches,
                   location_cache, geocoded, geocoder_calls>>
    /\ UNCHANGED <<chatVars, timeoutVars, singletonVars, hybridVars,
                   functionVars, serviceVars>>

\* location_ref = self._extract_location_reference(user_message)
ExtractLocation ==
    /\ request_pc = "extract"
    /\ \E reply \in RequestReplies :
          location_ref' =
              extract_location_reference(request.query, gpt_service,
                                         reply).value
    /\ request_pc' = IF location_ref'.has_reference
                          /\ Truthy(location_ref'.reference)
                     THEN "resolve" ELSE "match"
    /\ UNCHANGED <<request, analysis_task, matcher_task, matcher_signals,
                   coords, resolution, location_aware_results, matched_data,
                   result_type, includes_local_term, searches,
                   location_cache, geocoded, geocoder_calls>>
    /\ UNCHANGED <<chatVars, timeoutVars, singletonVars, hybridVars,
                   functionVars, serviceVars>>

\* coords = self._resolve_location_coordinates(location_ref["reference"])
ResolveLocation ==
    /\ request_pc = "resolve"
    /\ \E lookup \in PlacesLookups, reply \in GeocoderReplies :
          \E r \in {resolve_location_coordinates(location_ref.reference,
                                                 lookup, reply)} :
             /\ coords' = r.coords
             /\ resolution' = r.consulted
             /\ geocoder_calls' =
                    IF geocoder_called(r) THEN geocoder_calls + 1
                    ELSE geocoder_calls
             /\ geocoded' =
                    IF r.coords.source = "nominatim"
                    THEN geocoded \cup {location_ref.reference}
                    ELSE geocoded
    /\ request_pc' = IF coords' # NoCoords THEN "proximity" ELSE "match"
    /\ UNCHANGED <<request, analysis_task, matcher_task, matcher_signals,
                   location_ref, location_aware_results, matched_data,
                   result_type, includes_local_term, searches,
                   location_cache>>
    /\ UNCHANGED <<chatVars, timeoutVars, singletonVars, hybridVars,
                   functionVars, serviceVars>>

\* location_aware_results = search_places_near_location(..., limit=5);
\* a non-empty result becomes matched_data.
ProximitySearch ==
    /\ request_pc = "proximity"
    /\ searches' = searches \cup {"search_places_near_location"}
    /\ \E found \in FoundCounts, type \in {"specific", "suggestions"} :
          /\ location_aware_results' =
                 db_entries(Min(found, PROXIMITY_LIMIT))
          /\ IF location_aware_results' # <<>>
             THEN /\ matched_data' = location_aware_results'
                  /\ result_type' = type
                  /\ request_pc' = "merge"
             ELSE /\ UNCHANGED <<matched_data, result_type>>
                  /\ request_pc' = "match"
    /\ UNCHANGED <<request, analysis_task, matcher_task, matcher_signals,
                   location_ref, coords, resolution, includes_local_term,
                   location_cache, geocoded, geocoder_calls>>
    /\ UNCHANGED <<chatVars, timeoutVars, singletonVars, hybridVars,
                   functionVars, serviceVars>>

\* matched_data, query_type = self._match_travel_data(...), run again with
\* the auto-detected keywords when it found nothing.
MatchTravelData ==
    /\ request_pc = "match"
    /\ \E called \in MatchSearches : searches' = searches \cup called
    /\ \E found \in FoundCounts, type \in {"specific", "suggestions"} :
          /\ matched_data' = db_entries(found)
          /\ result_type' = type
    /\ request_pc' = "merge"
    /\ UNCHANGED <<request, analysis_task, matcher_task, matcher_signals,
                   location_ref, coords, resolution, location_aware_results,
                   includes_local_term, location_cache, geocoded,
                   geocoder_calls>>
    /\ UNCHANGED <<chatVars, timeoutVars, singletonVars, hybridVars,
                   functionVars, serviceVars>>

\* Trip guides are merged in, the list is trimmed, and the query's local
\* relevance is worked out.
MergeAndTrim ==
    /\ request_pc = "merge"
    /\ \E trip_matches \in {<<>>, <<TripGuide>>} :
          matched_data' =
              trim_structured_results(
                  merge_structured_data(matched_data, trip_matches),
                  NoLimit, result_type, DEFAULT_DISPLAY_LIMIT)
    /\ includes_local_term' = (request.local \/ matcher_signals.is_local)
    /\ request_pc' = "fallback"
    /\ UNCHANGED <<request, analysis_task, matcher_task, matcher_signals,
                   location_ref, coords, resolution, location_aware_results,
                   result_type, searches, location_cache, geocoded,
                   geocoder_calls>>
    /\ UNCHANGED <<chatVars, timeoutVars, singletonVars, hybridVars,
                   functionVars, serviceVars>>

\* if not matched_data and includes_local_term: the location reference is
\* extracted and resolved again and _google_search_fallback(limit=3) is
\* called; its results, if any, become matched_data.
GoogleFallback ==
    /\ request_pc = "fallback"
    /\ should_fallback(matched_data, includes_local_term)
    /\ \E reply \in RequestReplies, lookup \in PlacesLookups,
          geo \in GeocoderReplies :
          \E ref \in {extract_location_reference(request.query, gpt_service,
                                                 reply).value} :
             /\ location_ref' = ref
             /\ IF ref.has_reference /\ Truthy(ref.reference)
                THEN \E r \in {resolve_location_coordinates(ref.reference,
                                                            lookup, geo)} :
                        /\ coords' = r.coords
                        /\ resolution' = r.consulted
                        /\ geocoder_calls' =
                               IF geocoder_called(r) THEN geocoder_calls + 1
                               ELSE geocoder_calls
                        /\ geocoded' =
                               IF r.coords.source = "nominatim"
                               THEN geocoded \cup {ref.reference}
                               ELSE geocoded
                ELSE UNCHANGED <<coords, resolution, geocoder_calls,
                                 geocoded>>
    /\ searches' = searches \cup {"google_search_fallback"}
    /\ \E maps \in GoogleOutcomes, found \in FoundCounts :
          \E google_results \in
                {google_search_fallback(maps, found,
                                        GOOGLE_FALLBACK_LIMIT)} :
             matched_data' = IF google_results # <<>> THEN google_results
                             ELSE matched_data
    /\ request_pc' = "done"
    /\ UNCHANGED <<request, analysis_task, matcher_task, matcher_signals,
                   location_aware_results, result_type, includes_local_term,
                   location_cache>>
    /\ UNCHANGED <<chatVars, timeoutVars, singletonVars, hybridVars,
                   functionVars, serviceVars>>

\* The external search is not tried.
NoFallback ==
    /\ request_pc = "fallback"
    /\ ~should_fallback(matched_data, includes_local_term)
    /\ request_pc' = "done"
    /\ UNCHANGED <<request, analysis_task, matcher_task, matcher_signals,
                   location_ref, coords, resolution, location_aware_results,
                   matched_data, result_type, includes_local_term, searches,
                   location_cache, geocoded, geocoder_calls>>
    /\ UNCHANGED <<chatVars, timeoutVars, singletonVars, hybridVars,
                   functionVars, serviceVars>>

\* The response is composed from matched_data and get_response returns.
FinishRequest ==
    /\ request_pc = "done"
    /\ request_pc' = "idle"
    /\ request' = NoRequest
    /\ analysis_task' = "none"
    /\ matcher_task' = "none"
    /\ matcher_signals' = NoSignals
    /\ location_ref' = NoReference
    /\ coords' = NoCoords
    /\ resolution' = <<>>
    /\ location_aware_results' = <<>>
    /\ matched_data' = <<>>
    /\ result_type' = "suggestions"
    /\ includes_local_term' = FALSE
    /\ searches' = {}
    /\ UNCHANGED <<location_cache, geocoded, geocoder_calls>>
    /\ UNCHANGED <<chatVars, timeoutVars, singletonVars, hybridVars,
                   functionVars, serviceVars>>

InitRequest ==
    /\ ChatQuiet /\ TimeoutIdle /\ SingletonIdle /\ HybridIdle
    /\ FunctionIdle /\ RequestIdle /\ ServiceIdle

NextRequest ==
    \/ StartRequest
    \/ AnalysisFinishes
    \/ MatcherFinishes
    \/ AwaitAnalysis
    \/ AwaitMatcher
    \/ ExtractLocation
    \/ ResolveLocation
    \/ ProximitySearch
    \/ MatchTravelData
    \/ MergeAndTrim
    \/ GoogleFallback
    \/ NoFallback
    \/ FinishRequest

SpecRequest == InitRequest /\ [][NextRequest]_vars

\* A step that calls the named search function for the first time in the
\* request.
Calls(fn) == fn \notin searches /\ fn \in searches'

\* The request has gone past the two future.result() calls.
RetrievalStarted ==
    request_pc \in {"extract", "resolve", "proximity", "match", "merge",
                    "fallback", "done"}

\* C17: within one request, retrieval starts only after both analysis
\* tasks have completed; search_places_near_location is called only after
\* the reference location has resolved to coordinates; and when the
\* proximity search returns a non-empty list, that list is the retrieval
\* result and no hybrid, category or main-attraction search is run.
C17_RetrievalOrder ==
    [][/\ (RetrievalStarted \/ searches # {})' =>
             (analysis_task # "running" /\ matcher_task = "done")'
       /\ Calls("search_places_near_location") =>
             /\ coords # NoCoords
             /\ resolution # <<>>
       /\ (location_aware_results # <<>>)' =>
             /\ (searches \cap StandardSearches = {})'
             /\ Calls("search_places_near_location") =>
                   matched_data' = location_aware_results'
             /\ \A i \in DOMAIN matched_data' :
                   matched_data'[i].source \in {"database", "trip_guide"}
      ]_vars

\* C17 witness: a request whose proximity search found places has
\* finished, both analysis tasks done, no other search run.
C17_Witness ==
    /\ request_pc = "done"
    /\ analysis_task = "done"
    /\ matcher_task = "done"
    /\ coords # NoCoords
    /\ location_aware_results # <<>>
    /\ searches = {"search_places_near_location"}
    /\ matched_data # <<>>

\* C18: resolving a reference name consults the location cache first, then
\* the place-name lookup, then the external geocoder; once the geocoder
\* has resolved a name a LocationCache entry for it exists, and the
\* geocoder is not called for it again.
C18_ResolutionUsesLocationCache ==
    /\ resolution # <<>> => resolution[1] = "location_cache"
    /\ geocoded \subseteq location_cache
    /\ geocoded # {} => geocoder_calls <= 1

\* C20: the external places search is invoked only when the retrieval
\* result is empty and the query is locally relevant (the message or a
\* keyword holds a local term, or the matcher flags it local); when its
\* results are used, structured_data holds at most 3 entries, each tagged
\* source = 'google_search'.
C20_ExternalSearchOnlyWhenEmptyAndLocal ==
    [][/\ Calls("google_search_fallback") =>
             /\ matched_data = <<>>
             /\ request.local \/ matcher_signals.is_local
       /\ ("google_search_fallback" \in searches /\ matched_data # <<>>)' =>
             /\ Len(matched_data') <= 3
             /\ \A i \in DOMAIN matched_data' :
                   matched_data'[i].source = "google_search"
      ]_vars

\* C20 witness: a locally relevant request whose retrieval found nothing
\* has finished with three entries of the external search.
C20_Witness ==
    /\ request_pc = "done"
    /\ "google_search_fallback" \in searches
    /\ request.local \/ matcher_signals.is_local
    /\ Len(matched_data) = 3
    /\ \A i \in DOMAIN matched_data :
          matched_data[i].source = "google_search"

(***************************************************************************)
(* TravelChatbot.get_response: the other-province short circuit            *)
(***************************************************************************)
\* The word for "province" that the pattern of _mentions_other_province
\* starts with
ProvinceWord ==
    <<"cho_chan", "mai_han-akat", "ngo_ngu", "ho_hip", "wo_waen", "mai_han-akat", "do_dek">>

\* constants.LOCAL_KEYWORDS, lowered
LOCAL_KEYWORDS ==
    {<<"so_sua", "mo_ma", "sara_u", "tho_thahan", "ro_rua", "so_sua", "ngo_ngu", "kho_khwai", "ro_rua", "sara_aa", "mo_ma">>,
     <<"s", "a", "m", "u", "t", " ", "s", "o", "n", "g", "k", "h", "r", "a", "m">>}

\* A place name of the travel data (a district of Samut Songkhram)
LocalPlaceName ==
    <<"o_ang", "mai_han-akat", "mo_ma", "pho_phan", "wo_waen", "sara_aa">>

\* The name of another province
OtherProvinceName ==
    <<"sara_e", "cho_chang", "sara_ii", "yo_yak", "ngo_ngu", "sara_ai_maimuan", "ho_hip", "mo_ma", "mai_ek">>

NearWord ==
    <<"sara_ai_maimuan", "ko_kai", "lo_ling", "mai_tho">>

\* _build_local_reference_terms: LOCAL_KEYWORDS and the name, place_name,
\* city, type and category of every entry, lowered
local_reference_terms == LOCAL_KEYWORDS \cup {lower(LocalPlaceName)}

\* _contains_local_reference(text)
contains_local_reference(text) ==
    \E term \in local_reference_terms : Contains(lower(text), term)

\* [^\s,.;!?]: a character that may belong to the province name
IsProvinceNameChar(c) == c \notin {" ", ",", ".", ";", "!", "?"}

\* The first index from i on that holds no space (Len + 1 when none)
SkipSpaces(s, i) ==
    LET rest == {j \in i..Len(s) : s[j] # " "}
    IN  IF rest = {} THEN Len(s) + 1
        ELSE CHOOSE j \in rest : \A k \in rest : j <= k

\* re.search(r'<province>\s*([^\s,.;!?]+)', normalized).group(1), NoText
\* when the pattern matches nowhere: the leftmost occurrence of the word
\* that is followed, after any spaces, by a name character; the name is the
\* longest run of name characters from there.
province_match(normalized) ==
    LET w == Len(ProvinceWord)
        starts == {i \in 1..(Len(normalized) - w + 1) :
                     /\ SubSeq(normalized, i, i + w - 1) = ProvinceWord
                     /\ SkipSpaces(normalized, i + w) <= Len(normalized)
                     /\ IsProvinceNameChar(
                            normalized[SkipSpaces(normalized, i + w)])}
    IN  IF starts = {} THEN NoText
        ELSE LET i == CHOOSE x \in starts : \A y \in starts : x <= y
                 j == SkipSpaces(normalized, i + w)
                 ends == {k \in j..Len(normalized) :
                            \A x \in j..k : IsProvinceNameChar(normalized[x])}
                 k == CHOOSE x \in ends : \A y \in ends : x >= y
             IN  SubSeq(normalized, j, k)

\* _mentions_other_province(query, keyword_pool, places)
mentions_other_province(query, keyword_pool, places) ==
    LET name == province_match(lower(query))
    IN  \/ name # NoText /\ ~contains_local_reference(name)
        \/ \E i \in 1..Len(places) :
              places[i] # <<>> /\ ~contains_local_reference(places[i])
        \/ \E i \in 1..Len(keyword_pool) :
              /\ keyword_pool[i] # <<>>
              /\ Contains(lower(keyword_pool[i]), ProvinceWord)
              /\ ~contains_local_reference(keyword_pool[i])

\* includes_local_term of get_response (chat.py 1933-1937)
includes_local(user_message, keyword_pool, is_local) ==
    \/ contains_local_reference(user_message)
    \/ \E i \in 1..Len(keyword_pool) : contains_local_reference(keyword_pool[i])
    \/ is_local

\* _interpret_query_keywords(query): the entities the model extracts, or
\* nothing when there is no service, and nothing when the call raises.
\* called: whether chat.completions.create was called.
interpret_query_keywords(service, reply) ==
    IF service # "ready"
    THEN [called |-> FALSE, value |-> NoAnalysis]
    ELSE [called |-> TRUE,
          value |-> IF reply.kind = "raises" THEN NoAnalysis ELSE reply.parsed]

\* The model call of GPTService.extract_query_entities, when it was made
interpretation_call(called) ==
    IF called THEN <<"extract_query_entities">> ELSE <<>>

\* What the model may extract from the query
EntityReplies ==
    {[kind |-> "raises"],
     [kind |-> "json", parsed |-> NoAnalysis],
     [kind |-> "json",
      parsed |-> [keywords |-> <<>>, places |-> <<OtherProvinceName>>]],
     [kind |-> "json",
      parsed |-> [keywords |-> <<LocalPlaceName>>, places |-> <<>>]]}

\* The user messages of the scope check
ScopeQueries ==
    {<<>>,
     <<"h", "i">>,
     ProvinceWord,
     OtherProvinceName,
     LocalPlaceName,
     ProvinceWord \o OtherProvinceName,
     ProvinceWord \o <<" ">> \o OtherProvinceName \o <<"?">>,
     ProvinceWord \o <<" ">> \o ProvinceWord \o OtherProvinceName,
     ProvinceWord \o <<"s", "a", "m", "u", "t", " ", "s", "o", "n", "g", "k", "h", "r", "a", "m">>,
     NearWord \o ProvinceWord \o OtherProvinceName,
     ProvinceWord \o OtherProvinceName \o <<" ">> \o LocalPlaceName}

InitScope ==
    /\ ChatInit({"none", "no_client", "ready"})
    /\ TimeoutIdle /\ SingletonIdle /\ HybridIdle
    /\ FunctionIdle /\ RequestIdle /\ ServiceIdle

\* get_response up to the greeting reply (chat.py 1768-1829): no cache holds
\* the query; a greeting is answered at once.
ScopeStart ==
    /\ scope_pc = "idle"
    /\ \E q \in ScopeQueries :
          /\ scope_query' = q
          /\ IF IsGreeting(q)
             THEN /\ scope_pc' = "done"
                  /\ scope_payload' = [response |-> "greeting_text",
                                       structured_data |-> <<>>,
                                       source |-> "greeting"]
             ELSE /\ scope_pc' = "analysis"
                  /\ scope_payload' = [source |-> "none"]
    /\ scope_analysis' = NoAnalysis
    /\ scope_is_local' = FALSE
    /\ llm_calls' = <<>>
    /\ UNCHANGED baseVars
    /\ ServiceFrame("scope")

\* The two parallel tasks (chat.py 1838-1847): _interpret_query_keywords is
\* submitted for a non-blank query, _matcher_analysis always; both results
\* are awaited.
ScopeAnalyse ==
    /\ scope_pc = "analysis"
    /\ \E reply \in EntityReplies, is_local \in BOOLEAN :
          \E r \in {IF strip(scope_query) # <<>>
                    THEN interpret_query_keywords(gpt_service, reply)
                    ELSE [called |-> FALSE, value |-> NoAnalysis]} :
             /\ scope_analysis' = r.value
             /\ llm_calls' = llm_calls \o interpretation_call(r.called)
             /\ scope_is_local' = (is_local /\ strip(scope_query) # <<>>)
    /\ scope_pc' = "extract"
    /\ UNCHANGED <<scope_query, scope_payload>>
    /\ UNCHANGED baseVars
    /\ ServiceFrame("scope")

\* _extract_location_reference(user_message) (chat.py 1862): the model is
\* asked when the message holds a location indicator and a client exists.
ScopeExtractLocation ==
    /\ scope_pc = "extract"
    /\ llm_calls' =
          IF /\ \E ind \in location_indicators :
                   Contains(lower(scope_query), ind)
             /\ gpt_service = "ready"
          THEN Append(llm_calls, "extract_location_reference")
          ELSE llm_calls
    /\ scope_pc' = "decide"
    /\ UNCHANGED <<scope_query, scope_analysis, scope_is_local, scope_payload>>
    /\ UNCHANGED baseVars
    /\ ServiceFrame("scope")

\* get_response from the retrieval to the reply (chat.py 1891-2088): the
\* apology when another province is mentioned, the prompt for a blank
\* message, otherwise the answer of the model or the simple answer.
\* matched: the retrieval result after trimming and fallback.
ScopeReply ==
    /\ scope_pc = "decide"
    /\ \E matched \in {<<>>, <<1>>}, api \in ApiOutcomes :
          LET keyword_pool ==
                  scope_analysis.keywords \o scope_analysis.places
              local_term ==
                  includes_local(scope_query, keyword_pool, scope_is_local)
              other_province ==
                  /\ ~local_term
                  /\ mentions_other_province(scope_query, keyword_pool,
                                             scope_analysis.places)
          IN  IF other_province
              THEN /\ scope_payload' = [response |-> "out_of_scope_apology",
                                        structured_data |-> <<>>,
                                        source |-> "out_of_scope"]
                   /\ UNCHANGED llm_calls
              ELSE IF strip(scope_query) = <<>>
              THEN /\ scope_payload' = [response |-> "empty_query_prompt",
                                        structured_data |-> <<>>,
                                        source |-> "empty_query"]
                   /\ UNCHANGED llm_calls
              ELSE IF gpt_service # "none"
              THEN \E r \in {generate_response(gpt_service = "ready", api,
                                               matched, "th")} :
                      /\ scope_payload' =
                            [response |-> r.value.response,
                             structured_data |-> matched,
                             source |-> Dget(r.value, "source", "openai")]
                      /\ llm_calls' =
                            IF gpt_service = "ready"
                            THEN Append(llm_calls, "generate_response")
                            ELSE llm_calls
              ELSE /\ scope_payload' = [response |-> "simple_text",
                                        structured_data |-> matched,
                                        source |-> "simple"]
                   /\ UNCHANGED llm_calls
    /\ scope_pc' = "done"
    /\ UNCHANGED <<scope_query, scope_analysis, scope_is_local>>
    /\ UNCHANGED baseVars
    /\ ServiceFrame("scope")

\* The next request arrives (the caches are left out: every request here
\* is a first request).
ScopeNext ==
    /\ scope_pc = "done"
    /\ scope_pc' = "idle"
    /\ scope_query' = <<>>
    /\ scope_analysis' = NoAnalysis
    /\ scope_is_local' = FALSE
    /\ llm_calls' = <<>>
    /\ scope_payload' = [source |-> "none"]
    /\ UNCHANGED baseVars
    /\ ServiceFrame("scope")

NextScope ==
    \/ ScopeStart
    \/ ScopeAnalyse
    \/ ScopeExtractLocation
    \/ ScopeReply
    \/ ScopeNext

SpecScope == InitScope /\ [][NextScope]_vars

\* The query names another region by the pattern and holds no local keyword
NamesOtherRegion(query) ==
    /\ province_match(lower(query)) # NoText
    /\ ~contains_local_reference(province_match(lower(query)))
    /\ ~contains_local_reference(query)

\* C21: a request whose query names another region by the province pattern
\* and holds no local keyword ends with the apology, source out_of_scope
\* and empty structured data, and no model call is made at any point while
\* it is handled.
C21_OtherRegionBypassesModel ==
    (scope_pc # "idle" /\ NamesOtherRegion(scope_query))
        => /\ llm_calls = <<>>
           /\ scope_pc = "done"
                 => /\ scope_payload.source = "out_of_scope"
                    /\ scope_payload.structured_data = <<>>
                    /\ scope_payload.response = "out_of_scope_apology"

(***************************************************************************)
(* The streaming endpoints: POST /api/chat and POST /api/messages/stream   *)
(***************************************************************************)
\* The values of "type" the streaming frames are documented to carry
FrameTypes ==
    {"intent", "structured_data", "text", "done", "error", "heartbeat"}

\* GPTService.generate_response_stream: the dictionaries it yields.
\* client: whether the OpenAI client exists; api.chunks: for each chunk of
\* the stream whether it has content; api.ends: how the stream ends
\* ("done", or "timeout" / "raises" for an exception of create or of the
\* iteration).
generate_response_stream(client, api, context_data) ==
    IF ~client
    THEN <<[error |-> "OpenAI client not initialized"]>>
    ELSE LET contents == SelectSeq(api.chunks, LAMBDA has_content : has_content)
             chunks == [i \in 1..Len(contents) |->
                          [chunk |-> "delta", language |-> "th",
                           source |-> model_name]]
         IN  chunks \o
             (CASE api.ends = "done" ->
                     <<[done |-> TRUE, structured_data |-> context_data,
                        language |-> "th", source |-> model_name]>>
                [] api.ends = "timeout" ->
                     <<[error |-> "Request timeout", timeout |-> TRUE]>>
                [] api.ends = "raises" -> <<[error |-> "api_error"]>>)

\* TravelChatbot.get_response_stream: the chunks it yields, and whether an
\* exception leaves it (the intent classification or the retrieval raised).
get_response_stream(user_message, service, retrieval, matched, api) ==
    IF IsGreeting(user_message)
    THEN [chunks |-> <<[type |-> "text", text |-> "greeting_text"],
                       [type |-> "done", source |-> "greeting"]>>,
          raised |-> FALSE]
    ELSE LET intent == <<[type |-> "intent", intent_type |-> "general"]>>
             data == IF matched # <<>>
                     THEN <<[type |-> "structured_data", data |-> matched]>>
                     ELSE <<>>
         IN  IF retrieval = "raises"
             THEN [chunks |-> intent, raised |-> TRUE]
             ELSE IF strip(user_message) = <<>>
             THEN [chunks |-> intent \o data \o
                       <<[type |-> "text", text |-> "empty_query_prompt"],
                         [type |-> "done", source |-> "empty_query"]>>,
                   raised |-> FALSE]
             ELSE IF service # "none"
             THEN [chunks |-> intent \o data \o
                       generate_response_stream(service = "ready", api,
                                                matched),
                   raised |-> FALSE]
             ELSE [chunks |-> intent \o data \o
                       <<[type |-> "text", text |-> "simple_text"],
                         [type |-> "done", source |-> "simple",
                          structured_data |-> matched]>>,
                   raised |-> FALSE]

\* api_chat.generate: every chunk of chat_with_bot_stream is written as one
\* frame "data: <json of the chunk>"; an exception adds an error frame.
api_chat(user_message, service, retrieval, matched, api) ==
    LET stream == get_response_stream(user_message, service, retrieval,
                                      matched, api)
    IN  stream.chunks \o
        (IF stream.raised
         THEN <<[type |-> "error", message |-> "exception"]>>
         ELSE <<>>)

\* The frames post_message_stream.generate writes for the chunks of the
\* model stream from position i on; beats[i]: more than 5 seconds have
\* passed since the last heartbeat when chunk i arrives.
RECURSIVE relay_chunks(_, _, _)
relay_chunks(chunks, beats, i) ==
    IF i > Len(chunks) THEN <<>>
    ELSE (IF beats[i] THEN <<[type |-> "heartbeat"]>> ELSE <<>>)
         \o (IF "chunk" \in DOMAIN chunks[i]
             THEN <<[type |-> "text", text |-> chunks[i].chunk]>>
             ELSE IF "done" \in DOMAIN chunks[i]
             THEN <<[type |-> "done", language |-> "th"]>>
             ELSE IF "error" \in DOMAIN chunks[i]
             THEN <<[type |-> "error", message |-> chunks[i].error]>>
             ELSE <<>>)
         \o relay_chunks(chunks, beats, i + 1)

\* post_message_stream.generate: the frames of POST /api/messages/stream.
\* chatbot: whether get_chatbot() gave an instance.
post_message_stream(chatbot, service, retrieval, matched, api, beats) ==
    IF ~chatbot
    THEN <<[type |-> "error", message |-> "Chatbot initialization failed"]>>
    ELSE LET intent == <<[type |-> "intent", intent_type |-> "general",
                          keywords |-> <<>>]>>
             data == IF matched # <<>>
                     THEN <<[type |-> "structured_data",
                             data |-> SubSeq(matched, 1, Min(3, Len(matched)))]>>
                     ELSE <<>>
         IN  IF retrieval = "raises"
             THEN intent \o <<[type |-> "error", message |-> "exception"]>>
             ELSE IF service # "none"
             THEN intent \o data \o
                  relay_chunks(generate_response_stream(service = "ready",
                                   api, matched),
                               beats, 1)
             ELSE intent \o data \o
                  <<[type |-> "text", text |-> "simple_text"],
                    [type |-> "done", language |-> "th"]>>

\* Model streams: up to two chunks, with or without content, and an end
StreamApis ==
    [chunks : {<<>>, <<TRUE>>, <<FALSE, TRUE>>, <<TRUE, TRUE>>},
     ends : {"done", "timeout", "raises"}]

HeartbeatTimes == [1..3 -> BOOLEAN]

StreamMessages == {<<>>, <<"h", "i">>, <<"w", "a", "t">>}

StreamInputs ==
    [fn : {"api_chat"},
     user_message : StreamMessages,
     service : {"none", "no_client", "ready"},
     retrieval : {"ok", "raises"},
     matched : {<<>>, <<1>>},
     api : StreamApis]
    \cup
    [fn : {"post_message_stream"},
     chatbot : BOOLEAN,
     service : {"none", "no_client", "ready"},
     retrieval : {"ok", "raises"},
     matched : {<<>>, <<1>>},
     api : StreamApis,
     beats : HeartbeatTimes]

InitStream ==
    /\ OthersIdle
    /\ fn_input \in StreamInputs
    /\ fn_output = Pending

\* POST /api/chat: the whole stream of one request
ApiChat ==
    /\ fn_output = Pending
    /\ fn_input.fn = "api_chat"
    /\ fn_output' = Returned(api_chat(fn_input.user_message, fn_input.service,
                        fn_input.retrieval, fn_input.matched, fn_input.api))
    /\ UNCHANGED <<fn_input, chatVars, timeoutVars, singletonVars, hybridVars,
                   requestVars, serviceVars>>

\* POST /api/messages/stream: the whole stream of one request with a text
PostMessageStream ==
    /\ fn_output = Pending
    /\ fn_input.fn = "post_message_stream"
    /\ fn_output' = Returned(post_message_stream(fn_input.chatbot,
                        fn_input.service, fn_input.retrieval,
                        fn_input.matched, fn_input.api, fn_input.beats))
    /\ UNCHANGED <<fn_input, chatVars, timeoutVars, singletonVars, hybridVars,
                   requestVars, serviceVars>>

NextStream == ApiChat \/ PostMessageStream

SpecStream == InitStream /\ [][NextStream]_vars

\* C22: every frame of the streaming endpoints carries a type field whose
\* value is one of intent, structured_data, text, done, error, heartbeat.
C22_FramesAreTyped ==
    (fn_input.fn \in {"api_chat", "post_message_stream"}
     /\ fn_output.status = "returned")
        => \A i \in 1..Len(fn_output.value) :
              /\ "type" \in DOMAIN fn_output.value[i]
              /\ fn_output.value[i].type \in FrameTypes

(***************************************************************************)
(* The chat endpoints: POST /api/query, /api/chat/sync and /api/messages   *)
(***************************************************************************)
\* What the chat function does with the message: it returns a result with
\* or without the key 'response', raises, or (POST /api/messages only) does
\* not return within CHAT_TIMEOUT_SECONDS.
ChatOutcomes == {"result", "no_response_key", "raises", "timeout"}

\* The request body: not JSON, JSON without the message, or with one
RequestBodies == {"malformed", "no_message", "message"}

\* The (body, status code) pair of a handler
Reply(body, code) == [body |-> body, code |-> code]

\* except Exception as error: return {'error': str(error)}, 500
error_reply(error) == Reply([error |-> error], 500)

\* route_handlers.handle_api_query(get_chat_response)
handle_api_query(json, chat) ==
    CASE json = "malformed" -> error_reply("BadRequest")
      [] json = "no_message" -> Reply([error |-> "Message is required"], 400)
      [] chat = "raises" -> error_reply("chat_error")
      [] chat = "no_response_key" -> error_reply("KeyError")
      [] OTHER -> Reply([success |-> TRUE, response |-> "text"], 200)

\* route_handlers.handle_api_chat(chat_with_bot)
handle_api_chat(json, chat) ==
    CASE json = "malformed" -> error_reply("BadRequest")
      [] json = "no_message" -> Reply([error |-> "Message is required"], 400)
      [] chat = "raises" -> error_reply("chat_error")
      [] OTHER -> Reply([success |-> TRUE, response |-> "text"], 200)

\* The payload post_message builds in its handlers of TimeoutError and of
\* Exception
failure_payload(message, source) ==
    [success |-> FALSE, error |-> TRUE, message |-> message,
     assistant |-> [role |-> "assistant", source |-> source,
                    fallback |-> TRUE]]

\* app.post_message.  get_json(silent=True) gives None for a malformed
\* body.  builtin_timeout: concurrent.futures.TimeoutError is the builtin
\* TimeoutError that the inner handler names (Python 3.11 and later).
post_message(json, chat, gpt_error, builtin_timeout) ==
    CASE json \in {"malformed", "no_message"} ->
           Reply([success |-> FALSE, error |-> TRUE,
                  message |-> "Text is required"], 400)
      [] chat = "timeout" ->
           IF builtin_timeout
           THEN Reply(failure_payload("AI timeout", "timeout_fallback"), 504)
           ELSE Reply(failure_payload("TimeoutError", "error"), 500)
      [] chat = "raises" -> Reply(failure_payload("chat_error", "error"), 500)
      [] chat = "no_response_key" ->
           Reply(failure_payload("KeyError", "error"), 500)
      [] OTHER ->
           Reply([success |-> ~gpt_error, error |-> gpt_error,
                  message |-> IF gpt_error THEN "api_error" ELSE "None",
                  assistant |-> [role |-> "assistant", source |-> "openai",
                                 fallback |-> gpt_error]], 200)

EndpointInputs ==
    [fn : {"api_query", "api_chat_sync"},
     json : RequestBodies,
     chat : ChatOutcomes \ {"timeout"},
     gpt_error : BOOLEAN,
     builtin_timeout : BOOLEAN]
    \cup
    [fn : {"post_message"},
     json : RequestBodies,
     chat : ChatOutcomes,
     gpt_error : BOOLEAN,
     builtin_timeout : BOOLEAN]

InitEndpoint ==
    /\ OthersIdle
    /\ fn_input \in EndpointInputs
    /\ fn_output = Pending

\* POST /api/query
ApiQuery ==
    /\ fn_output = Pending
    /\ fn_input.fn = "api_query"
    /\ fn_output' = Returned(handle_api_query(fn_input.json, fn_input.chat))
    /\ UNCHANGED <<fn_input, chatVars, timeoutVars, singletonVars, hybridVars,
                   requestVars, serviceVars>>

\* POST /api/chat/sync
ApiChatSync ==
    /\ fn_output = Pending
    /\ fn_input.fn = "api_chat_sync"
    /\ fn_output' = Returned(handle_api_chat(fn_input.json, fn_input.chat))
    /\ UNCHANGED <<fn_input, chatVars, timeoutVars, singletonVars, hybridVars,
                   requestVars, serviceVars>>

\* POST /api/messages
PostMessage ==
    /\ fn_output = Pending
    /\ fn_input.fn = "post_message"
    /\ fn_output' = Returned(post_message(fn_input.json, fn_input.chat,
                        fn_input.gpt_error, fn_input.builtin_timeout))
    /\ UNCHANGED <<fn_input, chatVars, timeoutVars, singletonVars, hybridVars,
                   requestVars, serviceVars>>

NextEndpoint == ApiQuery \/ ApiChatSync \/ PostMessage

SpecEndpoint == InitEndpoint /\ [][NextEndpoint]_vars

\* An exception was raised while the request was handled
ExceptionRaised ==
    \/ fn_input.json = "malformed" /\ fn_input.fn # "post_message"
    \/ fn_input.json = "message"
       /\ fn_input.chat \in {"raises", "no_response_key", "timeout"}
       /\ (fn_input.chat = "no_response_key" => fn_input.fn # "api_chat_sync")

\* C23: an exception raised while a chat request is handled is answered by
\* a failure payload that carries success = false; the handler never passes
\* the exception on.
C23_FailurePayloadHasSuccessFalse ==
    (fn_input.fn \in {"api_query", "api_chat_sync", "post_message"}
     /\ fn_output # Pending /\ ExceptionRaised)
        => /\ fn_output.status = "returned"
           /\ "success" \in DOMAIN fn_output.value.body
           /\ fn_output.value.body.success = FALSE

(***************************************************************************)
(* TravelChatbot._merge_keywords                                           *)
(***************************************************************************)
\* Variant: nothing counts as seen.
already_seen_Never(lowered, seen) == FALSE

\* if lowered in seen: continue
already_seen(lowered, seen) == lowered \in seen

\* The loop of _merge_keywords over the keywords of all lists in order,
\* from position i on: text = str(keyword).strip(); blank texts and texts
\* whose lowered form was seen are skipped.
RECURSIVE merge_loop(_, _, _, _)
merge_loop(keywords, i, merged, seen) ==
    IF i > Len(keywords) THEN merged
    ELSE LET text == strip(keywords[i])
             lowered == lower(text)
         IN  IF text = <<>> \/ already_seen(lowered, seen)
             THEN merge_loop(keywords, i + 1, merged, seen)
             ELSE merge_loop(keywords, i + 1, Append(merged, text),
                             seen \cup {lowered})

\* The keywords of all the lists, in order (an empty list is skipped)
RECURSIVE Flatten(_)
Flatten(keyword_sets) ==
    IF keyword_sets = <<>> THEN <<>>
    ELSE Head(keyword_sets) \o Flatten(Tail(keyword_sets))

\* _merge_keywords(*keyword_sets)
merge_keywords(keyword_sets) == merge_loop(Flatten(keyword_sets), 1, <<>>, {})

\* Keywords: letters in either case, with spaces around, blank and empty
Keywords ==
    {<<>>, <<" ">>, <<"a">>, <<"A">>, <<" ", "a">>, <<"b", " ">>,
     <<"A", "b">>}

MaxKeywords == 2

RECURSIVE ListsUpTo(_, _)
ListsUpTo(S, n) ==
    IF n = 0 THEN {<<>>}
    ELSE LET shorter == ListsUpTo(S, n - 1)
         IN  shorter \cup {Append(l, x) : l \in shorter, x \in S}

KeywordLists == ListsUpTo(Keywords, MaxKeywords)

MergeInputs ==
    [fn : {"merge_keywords"}, first : KeywordLists, second : KeywordLists]

InitMerge ==
    /\ OthersIdle
    /\ fn_input \in MergeInputs
    /\ fn_output = Pending

\* One call _merge_keywords(first, second); merged_again is what merging the
\* result once more gives.
MergeKeywords ==
    /\ fn_output = Pending
    /\ fn_input.fn = "merge_keywords"
    /\ \E merged \in {merge_keywords(<<fn_input.first, fn_input.second>>)} :
          fn_output' = [status |-> "returned", value |-> merged,
                        merged_again |-> merge_keywords(<<merged>>)]
    /\ UNCHANGED <<fn_input, chatVars, timeoutVars, singletonVars, hybridVars,
                   requestVars, serviceVars>>

NextMerge == MergeKeywords

SpecMerge == InitMerge /\ [][NextMerge]_vars

MergeReturned ==
    fn_input.fn = "merge_keywords" /\ fn_output.status = "returned"

\* The input keywords in order
InputKeywords == fn_input.first \o fn_input.second

\* The first position of the input whose keyword is k ignoring case and
\* the spaces around it
FirstPosition(k) ==
    CHOOSE i \in 1..Len(InputKeywords) :
        /\ lower(strip(InputKeywords[i])) = lower(k)
        /\ \A j \in 1..(i - 1) : lower(strip(InputKeywords[j])) # lower(k)

\* What the claim states apart from the representation of the inputs: no
\* two elements equal ignoring case; every element a stripped non-empty
\* input keyword; the elements in the order of first occurrence; merging
\* the result again returns it unchanged.
MergedIsClean ==
    LET merged == fn_output.value
    IN  /\ \A i, j \in 1..Len(merged) :
              i # j => lower(merged[i]) # lower(merged[j])
        /\ \A i \in 1..Len(merged) :
              /\ merged[i] # <<>>
              /\ \E j \in 1..Len(InputKeywords) :
                    merged[i] = strip(InputKeywords[j])
              /\ merged[i] = strip(InputKeywords[FirstPosition(merged[i])])
        /\ \A i, j \in 1..Len(merged) :
              i < j => FirstPosition(merged[i]) < FirstPosition(merged[j])
        /\ fn_output.merged_again = merged

\* Input keyword k has an element equal to it ignoring case
Represented(k) ==
    \E i \in 1..Len(fn_output.value) :
        lower(fn_output.value[i]) = lower(strip(k))

\* C24 as stated: the merged list has no two elements equal ignoring case,
\* holds only stripped non-empty input keywords in order of first
\* occurrence, is unchanged by merging again, and represents every input
\* keyword.
C24_EveryKeywordRepresented ==
    MergeReturned
        => /\ MergedIsClean
           /\ \A i \in 1..Len(InputKeywords) : Represented(InputKeywords[i])

\* C24 amended: as stated, but only the input keywords that are not blank
\* are represented; a keyword that is empty after stripping is dropped.
C24_NonBlankKeywordsRepresented ==
    MergeReturned
        => /\ MergedIsClean
           /\ \A i \in 1..Len(InputKeywords) :
                 strip(InputKeywords[i]) # <<>> => Represented(InputKeywords[i])
           /\ \A i \in 1..Len(InputKeywords) :
                 strip(InputKeywords[i]) = <<>>
                     => ~Represented(InputKeywords[i])

\* Two lists that share a keyword in different case and hold a blank one,
\* merged to two elements
C24_Witness ==
    /\ MergeReturned
    /\ fn_input.first = << <<" ", "a">>, <<" ">> >>
    /\ fn_input.second = << <<"A">>, <<"b", " ">> >>
    /\ fn_output.value = << <<"a">>, <<"b">> >>

(***************************************************************************)
(* VoiceActivityDetector.detect_speech_end                                 *)
(***************************************************************************)
\* frame_duration_s = 0.03
FRAME_DURATION_MS == 30

\* int(silence_threshold_seconds / frame_duration_s), the seconds given in
\* tenths
silence_frames_threshold(tenths) == (tenths * 100) \div FRAME_DURATION_MS

\* Variant: the first silent chunk ends the speech.
silence_exceeded_AtOnce(frames, threshold) == frames >= 1

\* if self.silence_frames >= silence_frames_threshold
silence_exceeded(frames, threshold) == frames >= threshold

\* The values of silence_threshold_seconds, in tenths of a second: 1.0 is
\* the default
SilenceThresholds == {1, 5, 10}

\* The speech chunks counted in one utterance
MaxSpeechFrames == 3

SilentRunCap == silence_frames_threshold(silence_threshold) + 1

InitVad ==
    /\ ChatQuiet /\ TimeoutIdle /\ SingletonIdle /\ HybridIdle
    /\ FunctionIdle /\ RequestIdle /\ ServiceIdleExcept("vad")
    /\ silence_frames = 0
    /\ speech_frames = 0
    /\ is_speaking = FALSE
    /\ silence_threshold \in SilenceThresholds
    /\ vad_call = NoVadCall
    /\ silent_run = 0
    /\ spoken = FALSE

\* detect_speech_end(audio_chunk) on a chunk in which is_speech finds speech
SpeechChunk ==
    /\ speech_frames < MaxSpeechFrames
    /\ speech_frames' = speech_frames + 1
    /\ silence_frames' = 0
    /\ is_speaking' = TRUE
    /\ vad_call' = [fed |-> TRUE, has_speech |-> TRUE,
                    was_speaking |-> is_speaking,
                    is_currently_speaking |-> TRUE,
                    speech_has_ended |-> FALSE]
    /\ silent_run' = 0
    /\ spoken' = TRUE
    /\ UNCHANGED silence_threshold
    /\ UNCHANGED baseVars
    /\ ServiceFrame("vad")

\* detect_speech_end(audio_chunk) on a chunk in which is_speech finds none
SilentChunk ==
    /\ LET threshold == silence_frames_threshold(silence_threshold)
       IN  IF is_speaking
           THEN IF silence_exceeded(silence_frames + 1, threshold)
                THEN /\ vad_call' = [fed |-> TRUE, has_speech |-> FALSE,
                                     was_speaking |-> TRUE,
                                     is_currently_speaking |-> FALSE,
                                     speech_has_ended |-> speech_frames > 0]
                     /\ is_speaking' = FALSE
                     /\ speech_frames' = 0
                     /\ silence_frames' = 0
                ELSE /\ vad_call' = [fed |-> TRUE, has_speech |-> FALSE,
                                     was_speaking |-> TRUE,
                                     is_currently_speaking |-> TRUE,
                                     speech_has_ended |-> FALSE]
                     /\ silence_frames' = silence_frames + 1
                     /\ UNCHANGED <<is_speaking, speech_frames>>
           ELSE /\ vad_call' = [fed |-> TRUE, has_speech |-> FALSE,
                                was_speaking |-> FALSE,
                                is_currently_speaking |-> FALSE,
                                speech_has_ended |-> FALSE]
                /\ UNCHANGED <<is_speaking, speech_frames, silence_frames>>
    /\ silent_run' = Min(silent_run + 1, SilentRunCap)
    /\ spoken' = (spoken /\ ~vad_call'.speech_has_ended)
    /\ UNCHANGED silence_threshold
    /\ UNCHANGED baseVars
    /\ ServiceFrame("vad")

NextVad == SpeechChunk \/ SilentChunk

SpecVad == InitVad /\ [][NextVad]_vars

\* C25: for every sequence of chunks, an end of speech is reported only on
\* a silent chunk that completes the threshold number of consecutive silent
\* chunks after a speech chunk fed since the last report; on the report the
\* detector is reset; a speech chunk sets the silence counter to 0; silence
\* while not speaking reports no end.
C25_SpeechEndReportedOnce ==
    [][/\ vad_call'.speech_has_ended
            => /\ ~vad_call'.has_speech
               /\ silent_run' = silence_frames_threshold(silence_threshold)
               /\ spoken /\ ~spoken'
               /\ ~is_speaking' /\ speech_frames' = 0 /\ silence_frames' = 0
       /\ vad_call'.has_speech => silence_frames' = 0
       /\ (~vad_call'.has_speech /\ ~is_speaking)
            => ~vad_call'.speech_has_ended]_vars

\* An end is reported under the default threshold of one second
C25_Witness ==
    /\ vad_call.speech_has_ended
    /\ silence_threshold = 10
    /\ silent_run = 33
    /\ ~is_speaking

(***************************************************************************)
(* ConversationMemory                                                      *)
(***************************************************************************)
\* max_messages_per_user and ttl_seconds of the memory, scaled down from
\* the 10 exchanges and 1800 seconds of get_conversation_memory
max_messages == 1

ttl_seconds == 2

\* The add_message calls and the seconds of one run
MaxAdds == 4

MaxMemoryTime == 4

MemoryUsers == {"u1", "u2"}

\* Variant: no conversation ever expires.
expired_Never(idle) == FALSE

\* current_time - conv["last_activity"] > self.ttl_seconds
expired(idle) == idle > ttl_seconds

\* _cleanup_expired(): the conversations left at time t
cleanup_expired(convs, t) ==
    LET live == {u \in DOMAIN convs : ~expired(t - convs[u].last_activity)}
    IN  [u \in live |-> convs[u]]

\* messages[-n:] for n > 0
LastN(messages, n) ==
    IF Len(messages) <= n THEN messages
    ELSE SubSeq(messages, Len(messages) - n + 1, Len(messages))

\* add_message(user_id, role, content) at time t
add_message(convs, user_id, role, content, t) ==
    LET live == cleanup_expired(convs, t)
        old == IF user_id \in DOMAIN live THEN live[user_id].messages ELSE <<>>
        messages == Append(old, [role |-> role, content |-> content])
        max_total_messages == max_messages * 2
    IN  Dset(live, user_id,
             [messages |-> IF Len(messages) > max_total_messages
                           THEN LastN(messages, max_total_messages)
                           ELSE messages,
              last_activity |-> t])

\* get_history(user_id) at time t: the conversations left and the list
\* returned
get_history(convs, user_id, t) ==
    LET live == cleanup_expired(convs, t)
    IN  [conversations |-> live,
         returned |-> IF user_id \notin DOMAIN live THEN <<>>
                      ELSE live[user_id].messages]

\* clear_history(user_id)
clear_history(convs, user_id) ==
    IF user_id \in DOMAIN convs THEN Remove(convs, user_id) ELSE convs

\* How long the conversation of user_id has been idle at time t (0 when
\* there is none)
IdleTime(convs, user_id, t) ==
    IF user_id \in DOMAIN convs THEN t - convs[user_id].last_activity ELSE 0

\* The record of the added messages, restricted to the live conversations
LiveAdded(record, convs) ==
    [u \in (DOMAIN record) \cap (DOMAIN convs) |-> record[u]]

InitMemory ==
    /\ ChatQuiet /\ TimeoutIdle /\ SingletonIdle /\ HybridIdle
    /\ FunctionIdle /\ RequestIdle /\ ServiceIdle

AddMessage ==
    /\ adds < MaxAdds
    /\ \E u \in MemoryUsers, role \in {"user", "assistant"} :
          \E after \in {add_message(conversations, u, role, adds + 1,
                                    memory_time)} :
             /\ conversations' = after
             /\ added' =
                   LET kept == LiveAdded(added,
                                   cleanup_expired(conversations, memory_time))
                   IN  Dset(kept, u,
                            Append(Dget(kept, u, <<>>),
                                   [role |-> role, content |-> adds + 1]))
             /\ memory_call' = [op |-> "add_message", user |-> u,
                                idle |-> IdleTime(conversations, u, memory_time),
                                returned |-> <<>>]
    /\ adds' = adds + 1
    /\ UNCHANGED memory_time
    /\ UNCHANGED baseVars
    /\ ServiceFrame("memory")

GetHistory ==
    /\ \E u \in MemoryUsers :
          \E r \in {get_history(conversations, u, memory_time)} :
             /\ conversations' = r.conversations
             /\ added' = LiveAdded(added, r.conversations)
             /\ memory_call' = [op |-> "get_history", user |-> u,
                                idle |-> IdleTime(conversations, u, memory_time),
                                returned |-> r.returned]
    /\ UNCHANGED <<memory_time, adds>>
    /\ UNCHANGED baseVars
    /\ ServiceFrame("memory")

ClearHistory ==
    /\ \E u \in MemoryUsers :
          /\ conversations' = clear_history(conversations, u)
          /\ added' = LiveAdded(added, conversations')
          /\ memory_call' = [op |-> "clear_history", user |-> u,
                             idle |-> IdleTime(conversations, u, memory_time),
                             returned |-> <<>>]
    /\ UNCHANGED <<memory_time, adds>>
    /\ UNCHANGED baseVars
    /\ ServiceFrame("memory")

\* get_stats(): the counts of the conversations left
GetStats ==
    /\ \E live \in {cleanup_expired(conversations, memory_time)} :
          /\ conversations' = live
          /\ added' = LiveAdded(added, live)
          /\ memory_call' = [op |-> "get_stats", user |-> "", idle |-> 0,
                             returned |-> <<>>,
                             active_conversations |-> Cardinality(DOMAIN live)]
    /\ UNCHANGED <<memory_time, adds>>
    /\ UNCHANGED baseVars
    /\ ServiceFrame("memory")

\* A second passes
MemoryTick ==
    /\ memory_time < MaxMemoryTime
    /\ memory_time' = memory_time + 1
    /\ UNCHANGED <<conversations, memory_call, added, adds>>
    /\ UNCHANGED baseVars
    /\ ServiceFrame("memory")

NextMemory ==
    \/ AddMessage
    \/ GetHistory
    \/ ClearHistory
    \/ GetStats
    \/ MemoryTick

SpecMemory == InitMemory /\ [][NextMemory]_vars

\* C26: after any sequence of calls every stored history holds at most
\* 2 * max_messages messages, which are the most recently added messages of
\* the user's live conversation in insertion order; clear_history(u) leaves
\* every other user's history as it was; and no call returns messages of a
\* conversation idle for more than ttl_seconds.
C26_MemoryHoldsRecentMessages ==
    [][/\ \A u \in DOMAIN conversations' :
             /\ Len(conversations'[u].messages) <= 2 * max_messages
             /\ u \in DOMAIN added'
             /\ conversations'[u].messages =
                   LastN(added'[u], 2 * max_messages)
       /\ memory_call'.op = "clear_history"
            => \A v \in MemoryUsers \ {memory_call'.user} :
                  /\ v \in DOMAIN conversations' <=> v \in DOMAIN conversations
                  /\ v \in DOMAIN conversations
                        => conversations'[v] = conversations[v]
       /\ memory_call'.idle > ttl_seconds => memory_call'.returned = <<>>
      ]_vars

\* A history was cut to the latest messages, and a get_history call on a
\* conversation idle for longer than the time to live returned nothing
C26_Witness ==
    /\ memory_call.op = "get_history"
    /\ memory_call.idle > ttl_seconds
    /\ memory_call.returned = <<>>
    /\ \E u \in DOMAIN conversations :
          /\ Len(added[u]) > 2 * max_messages
          /\ Len(conversations[u].messages) = 2 * max_messages

(***************************************************************************)
(* visit_counter: increment_visit and get_counts                           *)
(***************************************************************************)
\* normalize_path(path); None and "" give "/"
normalize_path(path) ==
    LET normalized == IF strip(path) = <<>> THEN <<"/">> ELSE strip(path)
    IN  IF path = <<>> THEN <<"/">>
        ELSE IF Head(normalized) # "/" THEN <<"/">> \o normalized
        ELSE normalized

\* _default_counts()
default_counts == [exists |-> TRUE, total |-> 0, pages |-> <<>>]

\* _read_counts(): the dictionary of the file, the default when it is
\* missing
read_counts(file) == IF ~file.exists THEN default_counts ELSE file

\* The counts increment_visit writes after reading counts (lines 65-71)
incremented(counts, normalized) ==
    [exists |-> TRUE,
     total |-> counts.total + 1,
     pages |-> Dset(counts.pages, normalized,
                    Dget(counts.pages, normalized, 0) + 1)]

\* Variant: the lock is taken whoever holds it.
lock_free_Always(holder) == TRUE

\* with _lock: entered when no thread holds the lock
lock_free(holder) == holder = 0

\* The paths of the visits, as the caller gives them
VisitPaths ==
    {<<>>, <<" ">>, <<"a">>, <<"/", "a">>, <<" ", "/", "a", " ">>}

\* The increment_visit calls of one run
MaxVisits == 3

InitVisit ==
    /\ ChatQuiet /\ TimeoutIdle /\ SingletonIdle /\ HybridIdle
    /\ FunctionIdle /\ RequestIdle /\ ServiceIdle

\* increment_visit(path) up to the lock: normalized = normalize_path(path);
\* with _lock
IncrementEnter(t) ==
    /\ visitor_pc[t] = "idle"
    /\ Len(completed)
         + Cardinality({x \in Threads : visitor_pc[x] \in {"read", "write"}})
         < MaxVisits
    /\ lock_free(visit_lock)
    /\ \E path \in VisitPaths :
          visitor_path' = [visitor_path EXCEPT ![t] = normalize_path(path)]
    /\ visit_lock' = t
    /\ visitor_pc' = [visitor_pc EXCEPT ![t] = "read"]
    /\ UNCHANGED <<visit_file, visitor_counts, completed>>
    /\ UNCHANGED baseVars
    /\ ServiceFrame("visit")

\* counts = _read_counts()
IncrementRead(t) ==
    /\ visitor_pc[t] = "read"
    /\ visitor_counts' = [visitor_counts EXCEPT ![t] = read_counts(visit_file)]
    /\ visitor_pc' = [visitor_pc EXCEPT ![t] = "write"]
    /\ UNCHANGED <<visit_file, visit_lock, visitor_path, completed>>
    /\ UNCHANGED baseVars
    /\ ServiceFrame("visit")

\* The counts are raised and written (_write_counts replaces the file in
\* one step), the lock is released and the call returns.
IncrementWrite(t) ==
    /\ visitor_pc[t] = "write"
    /\ visit_file' = incremented(visitor_counts[t], visitor_path[t])
    /\ visit_lock' = IF visit_lock = t THEN 0 ELSE visit_lock
    /\ completed' = Append(completed, visitor_path[t])
    /\ visitor_pc' = [visitor_pc EXCEPT ![t] = "idle"]
    /\ UNCHANGED <<visitor_path, visitor_counts>>
    /\ UNCHANGED baseVars
    /\ ServiceFrame("visit")

\* get_counts() up to the lock
GetCountsEnter(t) ==
    /\ visitor_pc[t] = "idle"
    /\ lock_free(visit_lock)
    /\ visit_lock' = t
    /\ visitor_pc' = [visitor_pc EXCEPT ![t] = "get"]
    /\ UNCHANGED <<visit_file, visitor_path, visitor_counts, completed>>
    /\ UNCHANGED baseVars
    /\ ServiceFrame("visit")

\* return _read_counts(), releasing the lock
GetCountsRead(t) ==
    /\ visitor_pc[t] = "get"
    /\ visitor_counts' = [visitor_counts EXCEPT ![t] = read_counts(visit_file)]
    /\ visit_lock' = IF visit_lock = t THEN 0 ELSE visit_lock
    /\ visitor_pc' = [visitor_pc EXCEPT ![t] = "idle"]
    /\ UNCHANGED <<visit_file, visitor_path, completed>>
    /\ UNCHANGED baseVars
    /\ ServiceFrame("visit")

NextVisit ==
    \E t \in Threads :
       \/ IncrementEnter(t)
       \/ IncrementRead(t)
       \/ IncrementWrite(t)
       \/ GetCountsEnter(t)
       \/ GetCountsRead(t)

SpecVisit == InitVisit /\ [][NextVisit]_vars

\* How many of the completed increments were for path p
CompletedFor(p) ==
    Cardinality({i \in 1..Len(completed) : completed[i] = p})

RECURSIVE SumOver(_, _)
SumOver(f, S) ==
    IF S = {} THEN 0
    ELSE LET x == CHOOSE y \in S : TRUE
         IN  f[x] + SumOver(f, S \ {x})

\* C27: under any interleaving of increment_visit and get_counts calls that
\* start from a missing counts file no update is lost: the stored total is
\* the number of completed increments, the stored count of each normalized
\* path is the number of completed increments for it, and the total is the
\* sum of the counts of the paths.
C27_NoLostVisit ==
    LET stored == read_counts(visit_file)
    IN  /\ stored.total = Len(completed)
        /\ \A p \in {normalize_path(q) : q \in VisitPaths} :
              Dget(stored.pages, p, 0) = CompletedFor(p)
        /\ stored.total = SumOver(stored.pages, DOMAIN stored.pages)

\* Three visits of two pages are stored while another thread is reading
\* the counts
C27_Witness ==
    /\ Len(completed) = MaxVisits
    /\ visit_file.total = MaxVisits
    /\ Cardinality(DOMAIN visit_file.pages) = 2
    /\ \E t \in Threads : visitor_pc[t] = "get"

(***************************************************************************)
(* POST /api/messages/stream: request registration and conversation memory *)
(***************************************************************************)
\* elapsed < 5 of the duplicate check, and the age after which
\* cleanup_caches drops a registration
DUPLICATE_RETRY_SECONDS == 5

ACTIVE_REQUEST_MAX_AGE == 120

\* The instants at which something happens
StreamInstants == {1, 4, 5, 6, 121}

RequestIds == {"r1", "r2"}

StreamRequests ==
    [request_id : RequestIds, user_id : {"u1"}, text : {"", "q"}]

\* What the other service groups hold while a stream request is served;
\* of the conversation memory only the conversations change.
streamFrame ==
    <<baseVars, scopeVars, vadVars, visitVars, qcacheVars, memory_time,
      memory_call, added, adds>>

\* cleanup_caches(): the registrations younger than 120 seconds
cleanup_caches(active, t) ==
    [k \in {x \in DOMAIN active : t - active[x] < ACTIVE_REQUEST_MAX_AGE}
        |-> active[k]]

\* request_id in _ACTIVE_REQUESTS and elapsed < 5
is_duplicate(active, request_id, t) ==
    /\ request_id \in DOMAIN active
    /\ t - active[request_id] < DUPLICATE_RETRY_SECONDS

InitMessages ==
    /\ ChatQuiet /\ TimeoutIdle /\ SingletonIdle /\ HybridIdle
    /\ FunctionIdle /\ RequestIdle /\ ServiceIdle

\* Time passes (the two stores of a stream are consecutive statements: no
\* second passes between them)
StreamTick ==
    /\ \A x \in Threads : stream_pc[x] # "user_added"
    /\ \E t \in StreamInstants :
          /\ t > stream_time
          /\ stream_time' = t
    /\ UNCHANGED <<ACTIVE_REQUESTS, stream_pc, stream_request, stream_reply,
                   conversations>>
    /\ UNCHANGED streamFrame

\* A request arrives: cleanup_caches(), the body is read, and a request
\* without text is answered with 400 (app.py 448-460).
StreamArrive(t) ==
    /\ stream_pc[t] = "idle"
    /\ \E r \in StreamRequests :
          /\ stream_request' = [stream_request EXCEPT ![t] = r]
          /\ IF r.text = ""
             THEN /\ stream_pc' = stream_pc
                  /\ stream_reply' = [stream_reply EXCEPT ![t] = 400]
             ELSE /\ stream_pc' = [stream_pc EXCEPT ![t] = "check"]
                  /\ stream_reply' = [stream_reply EXCEPT ![t] = 0]
    /\ ACTIVE_REQUESTS' = cleanup_caches(ACTIVE_REQUESTS, stream_time)
    /\ UNCHANGED <<stream_time, conversations>>
    /\ UNCHANGED streamFrame

\* The duplicate check (app.py 463-471): 409 for a request_id registered
\* less than 5 seconds ago.
StreamCheck(t) ==
    /\ stream_pc[t] = "check"
    /\ IF is_duplicate(ACTIVE_REQUESTS, stream_request[t].request_id,
                       stream_time)
       THEN /\ stream_pc' = [stream_pc EXCEPT ![t] = "idle"]
            /\ stream_reply' = [stream_reply EXCEPT ![t] = 409]
       ELSE /\ stream_pc' = [stream_pc EXCEPT ![t] = "register"]
            /\ UNCHANGED stream_reply
    /\ UNCHANGED <<ACTIVE_REQUESTS, stream_time, stream_request,
                   conversations>>
    /\ UNCHANGED streamFrame

\* _ACTIVE_REQUESTS[request_id] = time.time(); the response with the
\* generator is returned (app.py 473, 618).
StreamRegister(t) ==
    /\ stream_pc[t] = "register"
    /\ ACTIVE_REQUESTS' = Dset(ACTIVE_REQUESTS, stream_request[t].request_id,
                               stream_time)
    /\ stream_pc' = [stream_pc EXCEPT ![t] = "generating"]
    /\ stream_reply' = [stream_reply EXCEPT ![t] = 200]
    /\ UNCHANGED <<stream_time, stream_request, conversations>>
    /\ UNCHANGED streamFrame

\* generate() up to the end of the model stream (app.py 476-575): the
\* stream ends in an error (no chatbot, an error chunk, an exception) and
\* nothing is stored, or it reaches the done chunk or the simple response
\* and the user message is stored.
StreamGenerate(t) ==
    /\ stream_pc[t] = "generating"
    /\ \E ending \in {"error", "done", "simple"} :
          IF ending = "error"
          THEN /\ stream_pc' = [stream_pc EXCEPT ![t] = "finishing"]
               /\ UNCHANGED conversations
          ELSE /\ stream_pc' = [stream_pc EXCEPT ![t] = "user_added"]
               /\ conversations' =
                     add_message(conversations, stream_request[t].user_id,
                                 "user", stream_request[t].request_id,
                                 stream_time)
    /\ UNCHANGED <<ACTIVE_REQUESTS, stream_time, stream_request, stream_reply>>
    /\ UNCHANGED streamFrame

\* memory.add_message(user_id, "assistant", ...) and the last frames
\* (app.py 568-595)
StreamStoreReply(t) ==
    /\ stream_pc[t] = "user_added"
    /\ conversations' =
          add_message(conversations, stream_request[t].user_id, "assistant",
                      stream_request[t].request_id, stream_time)
    /\ stream_pc' = [stream_pc EXCEPT ![t] = "finishing"]
    /\ UNCHANGED <<ACTIVE_REQUESTS, stream_time, stream_request, stream_reply>>
    /\ UNCHANGED streamFrame

\* finally: if request_id in _ACTIVE_REQUESTS: del (app.py 611-616)
StreamFinish(t) ==
    /\ stream_pc[t] = "finishing"
    /\ ACTIVE_REQUESTS' =
          IF stream_request[t].request_id \in DOMAIN ACTIVE_REQUESTS
          THEN Remove(ACTIVE_REQUESTS, stream_request[t].request_id)
          ELSE ACTIVE_REQUESTS
    /\ stream_pc' = [stream_pc EXCEPT ![t] = "idle"]
    /\ UNCHANGED <<stream_time, stream_request, stream_reply, conversations>>
    /\ UNCHANGED streamFrame

NextMessages ==
    \/ StreamTick
    \/ \E t \in Threads :
          \/ StreamArrive(t)
          \/ StreamCheck(t)
          \/ StreamRegister(t)
          \/ StreamGenerate(t)
          \/ StreamStoreReply(t)
          \/ StreamFinish(t)

SpecMessages == InitMessages /\ [][NextMessages]_vars

\* Some stream for request_id is generating
Generating(pcs, request_id) ==
    \E t \in Threads :
       /\ pcs[t] \in {"generating", "user_added", "finishing"}
       /\ stream_request[t].request_id = request_id

\* C28: a request whose request_id was registered less than 5 seconds ago
\* is rejected with 409, starts no stream and leaves the registration as it
\* is; and a request_id is registered exactly as long as some stream for it
\* has not finished.
C28_RegisteredWhileGenerating ==
    [][/\ \A t \in Threads :
             (/\ stream_pc[t] = "check" /\ stream_pc'[t] # "check"
              /\ is_duplicate(ACTIVE_REQUESTS, stream_request[t].request_id,
                              stream_time))
                => /\ stream_reply'[t] = 409
                   /\ stream_pc'[t] = "idle"
                   /\ ACTIVE_REQUESTS' = ACTIVE_REQUESTS
       /\ \A r \in RequestIds :
             r \in DOMAIN ACTIVE_REQUESTS' <=> Generating(stream_pc', r)
      ]_vars

\* The messages are (user, assistant) pairs
IsPairs(messages) ==
    /\ Len(messages) % 2 = 0
    /\ \A i \in 1..Len(messages) :
          messages[i].role = (IF i % 2 = 1 THEN "user" ELSE "assistant")

QUERY_RESULT_CACHE_TTL == 300

CacheInstants == {1, 299, 300, 301}

\* Queries: two that go through the cache and one naming a place exactly.
MatchQueries == {"temple", "market", "wat_bang_kung"}

MatchLimits == {2, 3}

MatchKeywordLists == {<<>>, <<"floating">>, <<"floating", "river">>}

\* What the routed search (main attractions, category or hybrid) finds.
search_answer(query) ==
    CASE query = "temple" -> <<1>>
      [] query = "market" -> <<2, 3, 4>>
      [] OTHER -> <<5>>

FirstN(list, n) == SubSeq(list, 1, IF Len(list) < n THEN Len(list) ELSE n)

search_routed(query, limit_value) == FirstN(search_answer(query), limit_value)

\* The per-keyword search of the expansion, limit=2.
keyword_search(kw) ==
    CASE kw = "floating" -> <<2, 6>>
      [] kw = "river" -> <<1, 7>>
      [] OTHER -> <<>>

\* The places whose name is in the query or holds it.
exact_place_results(query) ==
    IF query = "wat_bang_kung" THEN <<5>> ELSE <<>>

\* hashlib.md5 of f"{query}:{limit_value}:{is_main}:{category}"; the two
\* flags are functions of the query.
cache_key(query, limit_value) == <<query, limit_value>>

RECURSIVE append_new(_, _, _)
append_new(results, kw_results, i) ==
    IF i > Len(kw_results) THEN results
    ELSE append_new(IF \E j \in 1..Len(results) : results[j] = kw_results[i]
                    THEN results
                    ELSE Append(results, kw_results[i]),
                    kw_results, i + 1)

RECURSIVE expand_keywords(_, _, _, _)
expand_keywords(results, keywords, limit_value, i) ==
    IF i > Len(keywords) \/ Len(results) >= limit_value THEN results
    ELSE expand_keywords(append_new(results, keyword_search(keywords[i]), 1),
                         keywords, limit_value, i + 1)

cache_hit(cache, times, key, current_time) ==
    /\ key \in DOMAIN cache
    /\ current_time - Dget(times, key, 0) < QUERY_RESULT_CACHE_TTL

InitQueryCache ==
    /\ ChatQuiet /\ TimeoutIdle /\ SingletonIdle /\ HybridIdle
    /\ FunctionIdle /\ RequestIdle /\ ServiceIdle

\* One call of _match_travel_data, up to final_results.
MatchTravelDataCall ==
    /\ \E query \in MatchQueries, limit_value \in MatchLimits,
          keywords \in MatchKeywordLists :
          LET key == cache_key(query, limit_value)
              exact == exact_place_results(query)
              hit == cache_hit(QUERY_RESULT_CACHE, QUERY_RESULT_CACHE_TIME,
                               key, cache_clock)
              results == IF exact # <<>> THEN exact
                         ELSE IF hit THEN QUERY_RESULT_CACHE[key]
                         ELSE search_routed(query, limit_value)
              expanded == expand_keywords(results, keywords, limit_value, 1)
          IN  /\ match_call' =
                    [query |-> query, keywords |-> keywords,
                     served |-> IF exact # <<>> THEN "exact"
                                ELSE IF hit THEN "hit" ELSE "search",
                     results |-> results,
                     final_results |-> FirstN(expanded, limit_value)]
              /\ IF exact # <<>>
                 THEN UNCHANGED <<QUERY_RESULT_CACHE, QUERY_RESULT_CACHE_TIME,
                                  original_results>>
                 ELSE /\ QUERY_RESULT_CACHE' =
                            Dset(QUERY_RESULT_CACHE, key, expanded)
                      /\ QUERY_RESULT_CACHE_TIME' =
                            IF hit THEN QUERY_RESULT_CACHE_TIME
                            ELSE Dset(QUERY_RESULT_CACHE_TIME, key,
                                      cache_clock)
                      /\ original_results' =
                            IF hit THEN original_results
                            ELSE Dset(original_results, key, results)
    /\ UNCHANGED cache_clock
    /\ UNCHANGED baseVars
    /\ ServiceFrame("qcache")

CacheTick ==
    /\ \E t \in CacheInstants :
          /\ t > cache_clock
          /\ cache_clock' = t
    /\ UNCHANGED <<QUERY_RESULT_CACHE, QUERY_RESULT_CACHE_TIME,
                   original_results, match_call>>
    /\ UNCHANGED baseVars
    /\ ServiceFrame("qcache")

NextQueryCache ==
    \/ MatchTravelDataCall
    \/ CacheTick

SpecQueryCache == InitQueryCache /\ [][NextQueryCache]_vars

\* C29: a list stored in the query-result cache stays, for as long as its
\* entry is within the time to live, the list the original search produced,
\* and a hit reads exactly that list.
C29_CachedListReadOnly ==
    /\ \A key \in DOMAIN QUERY_RESULT_CACHE :
          cache_clock - QUERY_RESULT_CACHE_TIME[key] < QUERY_RESULT_CACHE_TTL
             => QUERY_RESULT_CACHE[key] = original_results[key]
    /\ match_call.served = "hit" =>
          \E limit_value \in MatchLimits :
             LET key == cache_key(match_call.query, limit_value)
             IN  /\ key \in DOMAIN original_results
                 /\ match_call.results = original_results[key]

====
